---------------------------- MODULE Spec2Model ----------------------------
(***************************************************************************)
(* A model of Source/FreeImage/BitmapAccess.cpp: the FIBITMAP store (size  *)
(* calculation, allocation, teardown, clone, thumbnail) and its metadata   *)
(* store, over an explicit heap of addresses.                              *)
(***************************************************************************)
EXTENDS Integers, Sequences, FiniteSets, TLC

VARIABLES
    dibs,       \* address of a FIBITMAP wrapper -> its block (FREEIMAGEHEADER, info header, palette, masks, pixels)
    mdmaps,     \* address of a METADATAMAP -> [model -> address of a TAGMAP]
    tagmaps,    \* address of a TAGMAP -> [key -> address of a FITAG]
    tags,       \* address of a FITAG -> its fields
    bufs,       \* address of a raw byte buffer (ICC bytes, caller pixel buffer) -> bytes
    live,       \* addresses currently allocated
    sizeBits,   \* width of size_t on the build (32 or 64)
    crashed,    \* the process has faulted on an invalid access
    uaf,        \* some call dereferenced an object it had already released
    dfree,      \* some address was released while not allocated
    ret,        \* the last call: its name, handle arguments and result
    calc,       \* a pending / finished call of the size calculator
    calls       \* number of calls the client has made

vars == <<dibs, mdmaps, tagmaps, tags, bufs, live, sizeBits, crashed, uaf, dfree, ret, calc, calls>>

heapvars == <<dibs, mdmaps, tagmaps, tags, bufs, live, crashed, uaf, dfree>>

-----------------------------------------------------------------------------
(* Unsigned machine integers.  A value is a fixed-length little-endian     *)
(* sequence of 12-bit limbs (96 bits), so that 32- and 64-bit words and    *)
(* the 53-bit significand of a double keep their exact width.              *)

LimbBits == 12

LimbBase == 4096

Limbs == 8

Limb(a, i) ==
    IF i >= 1 /\ i <= Limbs THEN a[i] ELSE 0

\* the number n, for 0 <= n < 2^31
Num(n) ==
    [i \in 1..Limbs |-> IF i > 3 THEN 0 ELSE (n \div (LimbBase ^ (i - 1))) % LimbBase]

\* the natural a number below 2^31 stands for
ToNat(a) ==
    a[1] + LimbBase * a[2] + LimbBase * LimbBase * a[3]

FitsNat(a) ==
    a[3] < 128 /\ \A i \in 4..Limbs : a[i] = 0

RECURSIVE Propagate(_, _, _)
Propagate(c, i, carry) ==
    IF i > Limbs THEN <<>>
    ELSE LET s == c[i] + carry
         IN  <<s % LimbBase>> \o Propagate(c, i + 1, s \div LimbBase)

BAdd(a, b) ==
    Propagate([i \in 1..Limbs |-> a[i] + b[i]], 1, 0)

RECURSIVE SubFrom(_, _, _, _)
SubFrom(a, b, i, borrow) ==
    IF i > Limbs THEN <<>>
    ELSE LET s == a[i] + LimbBase - b[i] - borrow
         IN  <<s % LimbBase>> \o SubFrom(a, b, i + 1, IF s < LimbBase THEN 1 ELSE 0)

\* a - b for a >= b
BSub(a, b) ==
    SubFrom(a, b, 1, 0)

RECURSIVE Column(_, _, _, _)
Column(a, b, k, i) ==
    IF i > k THEN 0 ELSE a[i] * b[k - i + 1] + Column(a, b, k, i + 1)

BMul(a, b) ==
    Propagate([k \in 1..Limbs |-> Column(a, b, k, 1)], 1, 0)

BLt(a, b) ==
    \E i \in 1..Limbs : a[i] < b[i] /\ \A j \in (i + 1)..Limbs : a[j] = b[j]

BEq(a, b) ==
    a = b

\* a mod 2^w: the value a word of w bits keeps
Trunc(a, w) ==
    [i \in 1..Limbs |->
        LET lo == LimbBits * (i - 1)
        IN  IF lo + LimbBits <= w THEN a[i]
            ELSE IF lo >= w THEN 0
            ELSE a[i] % (2 ^ (w - lo))]

\* a div 2^k
Shr(a, k) ==
    LET q == k \div LimbBits
        r == k % LimbBits
    IN  [i \in 1..Limbs |->
            (Limb(a, i + q) \div (2 ^ r)) + (Limb(a, i + q + 1) % (2 ^ r)) * (2 ^ (LimbBits - r))]

\* a * 2^k
Shl(a, k) ==
    LET q == k \div LimbBits
        r == k % LimbBits
    IN  [i \in 1..Limbs |->
            (Limb(a, i - q) % (2 ^ (LimbBits - r))) * (2 ^ r)
              + (Limb(a, i - q - 1) \div (2 ^ (LimbBits - r)))]

Pow2(k) ==
    Shl(Num(1), k)

\* the largest value of a w-bit word
AllOnes(w) ==
    BSub(Pow2(w), Num(1))

\* the number of significant bits of a
BitLen(a) ==
    IF a = Num(0) THEN 0
    ELSE LET h == CHOOSE i \in 1..Limbs : a[i] # 0 /\ \A j \in (i + 1)..Limbs : a[j] = 0
             n == CHOOSE m \in 1..LimbBits : 2 ^ (m - 1) <= a[h] /\ a[h] < 2 ^ m
         IN  LimbBits * (h - 1) + n

(* An IEEE-754 double holding a non-negative integer: the integer rounded  *)
(* to a 53-bit significand, ties to even.                                  *)
DoubleMantissa == 53

RoundDouble(a) ==
    LET k == BitLen(a) - DoubleMantissa
    IN  IF k <= 0 THEN a
        ELSE LET kept   == Shr(a, k)
                 guard  == Shr(a, k - 1)[1] % 2
                 sticky == Trunc(a, k - 1) # Num(0)
                 up     == guard = 1 /\ (sticky \/ kept[1] % 2 = 1)
             IN  Shl(IF up THEN BAdd(kept, Num(1)) ELSE kept, k)

DAdd(a, b) == RoundDouble(BAdd(a, b))

DMul(a, b) == RoundDouble(BMul(a, b))

-----------------------------------------------------------------------------
(* Layout constants of the build.                                           *)

FIBITMAP_ALIGNMENT == 16

SizeofInfoHeader == 40

SizeofRGBA8 == 4

SizeofMasks == 12

UnsignedBits == 32

LongLongBits == 64

\* sizeof(FREEIMAGEHEADER) for 4-byte and for 8-byte pointers
SizeofHeader(sb) ==
    IF sb = 32 THEN 304 ELSE 328

PadTo(n, a) ==
    IF (n % a) # 0 THEN a - (n % a) ELSE 0

CalculateUsedPaletteEntries(bpp) ==
    IF bpp >= 1 /\ bpp <= 8 THEN 2 ^ bpp ELSE 0

\* (unsigned)(((unsigned long long)width * bitdepth + 7) / 8)
CalculateLine(width, bpp) ==
    Trunc(Shr(Trunc(BAdd(BMul(width, Num(bpp)), Num(7)), LongLongBits), 3), UnsignedBits)

\* (line + 3) & ~3 on unsigned
CalculatePitch(line) ==
    Shl(Shr(Trunc(BAdd(line, Num(3)), UnsignedBits), 2), 2)

\* the bytes before the pixel region: header, info header, palette / masks, each aligned
HeaderPart(sb, bpp, need_masks) ==
    LET s1 == SizeofHeader(sb) + PadTo(SizeofHeader(sb), FIBITMAP_ALIGNMENT)
        s2 == s1 + (FIBITMAP_ALIGNMENT - (SizeofInfoHeader % FIBITMAP_ALIGNMENT))
        s3 == s2 + SizeofInfoHeader
        s4 == s3 + SizeofRGBA8 * CalculateUsedPaletteEntries(bpp)
        s5 == s4 + (IF need_masks THEN SizeofMasks ELSE 0)
    IN  s5 + PadTo(s5, FIBITMAP_ALIGNMENT)

\* (double)((size_t)-1) - 8 * FIBITMAP_ALIGNMENT
\* the size in size_t arithmetic alone, without the floating-point cross-check
GetInternalImageSize_Unchecked(sb, header_only, width, height, bpp, need_masks) ==
    IF header_only THEN Num(HeaderPart(sb, bpp, need_masks))
    ELSE Trunc(BAdd(Num(HeaderPart(sb, bpp, need_masks)),
                    Trunc(BMul(Trunc(CalculatePitch(CalculateLine(width, bpp)), sb),
                               Trunc(height, sb)), sb)), sb)

FIBITMAP_MAX_MEMORY(sb) ==
    RoundDouble(BSub(RoundDouble(AllOnes(sb)), Num(8 * FIBITMAP_ALIGNMENT)))

\* the size in bytes of the block of an image; zero when it would overflow
FreeImage_GetInternalImageSize(sb, header_only, width, height, bpp, need_masks) ==
    LET header_size == Num(HeaderPart(sb, bpp, need_masks))
    IN  IF header_only THEN header_size
        ELSE LET pitch      == Trunc(CalculatePitch(CalculateLine(width, bpp)), sb)
                 dib_size   == Trunc(BAdd(header_size, Trunc(BMul(pitch, Trunc(height, sb)), sb)), sb)
                 dPitch     == Shl(Shr(DAdd(DMul(Num(bpp), width), Num(31)), 5), 2)
                 dImageSize == DAdd(RoundDouble(header_size), DMul(dPitch, height))
             IN  IF ~BEq(dImageSize, RoundDouble(dib_size)) THEN Num(0)
                 ELSE IF BLt(FIBITMAP_MAX_MEMORY(sb), dImageSize) THEN Num(0)
                 ELSE dib_size

-----------------------------------------------------------------------------
(* The size calculator on its own: every call with arguments drawn from    *)
(* words up to the full unsigned range.                                    *)

SizeDims ==
    { Num(1), Num(3), Num(33), Num(65536), Num(100000), Num(1073741829), Num(2147483647),
      BSub(AllOnes(UnsignedBits), Num(19)), AllOnes(UnsignedBits) }

SizeDepths == {1, 4, 8, 16, 24, 32, 64, 128}

PlatformBits == {32, 64}

NoCalc == [phase |-> "idle"]

NoRet ==
    [op |-> "none", dib |-> 0, src |-> 0, res |-> 0, model |-> 0, key |-> "", tag |-> <<>>,
     freed |-> {}]

EmptyHeap ==
    /\ dibs = <<>>
    /\ mdmaps = <<>>
    /\ tagmaps = <<>>
    /\ tags = <<>>
    /\ bufs = <<>>
    /\ live = {}
    /\ crashed = FALSE
    /\ uaf = FALSE
    /\ dfree = FALSE
    /\ ret = NoRet
    /\ calls = 0

InitSize ==
    /\ EmptyHeap
    /\ sizeBits \in PlatformBits
    /\ calc \in [phase : {"in"}, header_only : BOOLEAN, width : SizeDims, height : SizeDims,
                 bpp : SizeDepths, need_masks : BOOLEAN]

ComputeBlockSize ==
    /\ calc.phase = "in"
    /\ calc' = [phase |-> "out", header_only |-> calc.header_only, width |-> calc.width,
                height |-> calc.height, bpp |-> calc.bpp, need_masks |-> calc.need_masks,
                size |-> FreeImage_GetInternalImageSize(sizeBits, calc.header_only, calc.width,
                                                        calc.height, calc.bpp, calc.need_masks)]
    /\ UNCHANGED <<heapvars, sizeBits, ret, calls>>

NextSize == ComputeBlockSize

SpecSize == InitSize /\ [][NextSize]_vars

-----------------------------------------------------------------------------
(* The heap.  Addresses 1..MaxObj are handed out by the allocator, lowest   *)
(* free address first (a released address is reused); one more address     *)
(* holds a pixel buffer owned by the caller.  A heap value hp carries the   *)
(* object stores, the flags, and `old`: the stores as they were when the    *)
(* running call began, which is what a read through a dangling pointer      *)
(* finds while the memory has not been reused.                              *)

MaxObj == 20

NULL == 0

Addr == 1..MaxObj

CallerBuffer == MaxObj + 1

Stores(d, m, t, g, b) ==
    [dibs |-> d, mdmaps |-> m, tagmaps |-> t, tags |-> g, bufs |-> b]

Heap ==
    [dibs |-> dibs, mdmaps |-> mdmaps, tagmaps |-> tagmaps, tags |-> tags, bufs |-> bufs,
     live |-> live, crashed |-> crashed, uaf |-> uaf, dfree |-> dfree, oom |-> FALSE,
     stale |-> {}, old |-> Stores(dibs, mdmaps, tagmaps, tags, bufs)]

Without(f, a) ==
    [x \in (DOMAIN f) \ {a} |-> f[x]]

With(f, a, v) ==
    [x \in (DOMAIN f) \cup {a} |-> IF x = a THEN v ELSE f[x]]

\* malloc / operator new: the lowest free address, NULL when none is left
Malloc(hp) ==
    LET free == Addr \ hp.live
    IN  IF free = {} THEN [hp |-> [hp EXCEPT !.oom = TRUE], addr |-> NULL]
        ELSE LET a == CHOOSE x \in free : \A y \in free : x <= y
             IN  [hp |-> [hp EXCEPT !.live = @ \cup {a}], addr |-> a]

\* free / delete: the address leaves the allocated set and its object is gone
Free(hp, a) ==
    IF a \notin hp.live
    THEN [hp EXCEPT !.dfree = TRUE]
    ELSE [hp EXCEPT !.live = @ \ {a},
                    !.stale = @ \cup {a},
                    !.dibs = Without(@, a),
                    !.mdmaps = Without(@, a),
                    !.tagmaps = Without(@, a),
                    !.tags = Without(@, a),
                    !.bufs = Without(@, a)]

RECURSIVE FreeAll(_, _)
FreeAll(hp, as) ==
    IF as = {} THEN hp
    ELSE LET a == CHOOSE x \in as : \A y \in as : x <= y
         IN  FreeAll(Free(hp, a), as \ {a})

Range(f) ==
    {f[x] : x \in DOMAIN f}

-----------------------------------------------------------------------------
(* Image types and their native bit depth.                                  *)

BI_RGB == 0

BI_BITFIELDS == 3

TypeBits ==
    [FIT_UINT16 |-> 16, FIT_INT16 |-> 16, FIT_UINT32 |-> 32, FIT_INT32 |-> 32,
     FIT_FLOAT |-> 32, FIT_DOUBLE |-> 64, FIT_COMPLEXF |-> 64, FIT_COMPLEX |-> 128,
     FIT_RGB16 |-> 48, FIT_RGBA16 |-> 64, FIT_RGB32 |-> 96, FIT_RGBA32 |-> 128,
     FIT_RGBF |-> 96, FIT_RGBAF |-> 128]

Abs(n) ==
    IF n < 0 THEN 0 - n ELSE n

NoICC == [flags |-> 0, size |-> 0, data |-> NULL]

DefaultResolution == 2835

\* the block as FreeImage_AllocateBitmap writes it after the zero fill
\* an allocation that leaves the palette of an 8-bit bitmap as the memset left it
NewBlock_ZeroPalette(data, dib_size, header_only, ext_bits, ext_pitch, type, width, height, bpp, need_masks, masks, metadata) ==
    [data |-> data, dib_size |-> dib_size, type |-> type,
     transparent |-> FALSE, transparency_count |-> 0,
     transparent_table |-> [i \in 0..255 |-> 255],
     has_pixels |-> ~header_only, iccProfile |-> NoICC, metadata |-> metadata,
     thumbnail |-> NULL, external_bits |-> ext_bits, external_pitch |-> ext_pitch,
     biWidth |-> width, biHeight |-> height, biBitCount |-> bpp,
     biCompression |-> IF need_masks THEN BI_BITFIELDS ELSE BI_RGB,
     biClrUsed |-> CalculateUsedPaletteEntries(bpp),
     biXPelsPerMeter |-> DefaultResolution, biYPelsPerMeter |-> DefaultResolution,
     palette |-> [i \in 0..(CalculateUsedPaletteEntries(bpp) - 1) |-> <<0, 0, 0>>],
     masks |-> IF need_masks THEN masks ELSE <<>>,
     bits |-> <<>>]

NewBlock(data, dib_size, header_only, ext_bits, ext_pitch, type, width, height, bpp, need_masks, masks, metadata) ==
    [data |-> data, dib_size |-> dib_size, type |-> type,
     transparent |-> FALSE, transparency_count |-> 0,
     transparent_table |-> [i \in 0..255 |-> 255],
     has_pixels |-> ~header_only, iccProfile |-> NoICC, metadata |-> metadata,
     thumbnail |-> NULL, external_bits |-> ext_bits, external_pitch |-> ext_pitch,
     biWidth |-> width, biHeight |-> height, biBitCount |-> bpp,
     biCompression |-> IF need_masks THEN BI_BITFIELDS ELSE BI_RGB,
     biClrUsed |-> CalculateUsedPaletteEntries(bpp),
     biXPelsPerMeter |-> DefaultResolution, biYPelsPerMeter |-> DefaultResolution,
     palette |-> [i \in 0..(CalculateUsedPaletteEntries(bpp) - 1) |->
                     IF bpp = 8 THEN <<i, i, i>> ELSE <<0, 0, 0>>],
     masks |-> IF need_masks THEN masks ELSE <<>>,
     bits |-> <<>>]

Failed(hp) == [hp |-> hp, res |-> NULL]

Result(hp, res) == [hp |-> hp, res |-> res]

\* the bit depth the request ends up with
CoerceBpp(type, bpp) ==
    IF type = "FIT_BITMAP"
    THEN (IF bpp \in {1, 2, 4, 8, 16, 24, 32} THEN bpp ELSE 8)
    ELSE TypeBits[type]

\* an allocation that returns without its block when the metadata map cannot be had
AllocMetadata_Leak(m3, h2, fail, wrapper, data, blk) ==
    IF m3.addr = NULL \/ fail = "metadata" THEN Failed(Free(h2, wrapper))
    ELSE Result([m3.hp EXCEPT !.dibs = With(@, wrapper, [blk EXCEPT !.metadata = m3.addr]),
                              !.mdmaps = With(@, m3.addr, <<>>)],
                wrapper)

\* `fail` names the allocation that returns nothing in this call, if any.
\* m3 is the outcome of new METADATAMAP, h2 the heap before it.
AllocMetadata(m3, h2, fail, wrapper, data, blk) ==
    IF m3.addr = NULL THEN Failed(Free(Free(m3.hp, data), wrapper))
    ELSE IF fail = "metadata" THEN Failed(Free(Free(h2, data), wrapper))
    ELSE Result([m3.hp EXCEPT !.dibs = With(@, wrapper, [blk EXCEPT !.metadata = m3.addr]),
                              !.mdmaps = With(@, m3.addr, <<>>)],
                wrapper)

\* m2 is the outcome of FreeImage_Aligned_Malloc, h1 the heap before it
AllocData(m2, h1, fail, wrapper, blk) ==
    IF m2.addr = NULL THEN Failed(Free(m2.hp, wrapper))
    ELSE IF fail = "data" THEN Failed(Free(h1, wrapper))
    ELSE AllocMetadata(Malloc(m2.hp), m2.hp, fail, wrapper, m2.addr, [blk EXCEPT !.data = m2.addr])

\* m1 is the outcome of malloc(sizeof(FIBITMAP)), hp the heap before it
AllocWrapper(m1, hp, fail, dib_size, blk) ==
    IF m1.addr = NULL THEN Failed(m1.hp)
    ELSE IF fail = "bitmap" THEN Failed(hp)
    ELSE IF dib_size = Num(0) THEN Failed(Free(m1.hp, m1.addr))
    ELSE AllocData(Malloc(m1.hp), m1.hp, fail, m1.addr, blk)

AllocSized(hp, fail, dib_size, header_only, ext_bits, ext_pitch, type, width, height, bpp, need_masks, masks) ==
    AllocWrapper(Malloc(hp), hp, fail, dib_size,
                 NewBlock(NULL, dib_size, header_only, ext_bits, ext_pitch, type, width, height,
                          bpp, need_masks, masks, NULL))

AllocChecked(hp, sb, fail, header_only, ext_bits, ext_pitch, type, width, height, bpp, need_masks, masks) ==
    AllocSized(hp, fail,
               FreeImage_GetInternalImageSize(sb, header_only \/ ext_bits # NULL, Num(width),
                                              Num(height), bpp, need_masks),
               header_only, ext_bits, ext_pitch, type, width, height, bpp, need_masks, masks)

FreeImage_AllocateBitmap(hp, sb, fail, header_only, ext_bits, ext_pitch, type, width, height, bpp, masks) ==
    IF ~(Abs(width) > 0 /\ Abs(height) > 0) THEN Failed(hp)
    ELSE IF ext_bits # NULL /\ ext_pitch = 0 THEN Failed(hp)
    ELSE IF type # "FIT_BITMAP" /\ type \notin DOMAIN TypeBits THEN Failed(hp)
    ELSE AllocChecked(hp, sb, fail, header_only, ext_bits, ext_pitch, type, Abs(width),
                      Abs(height), CoerceBpp(type, bpp), type = "FIT_BITMAP" /\ bpp = 16, masks)

FreeImage_AllocateHeaderT(hp, sb, fail, header_only, type, width, height, bpp, masks) ==
    FreeImage_AllocateBitmap(hp, sb, fail, header_only, NULL, 0, type, width, height, bpp, masks)

FreeImage_AllocateHeaderForBits(hp, sb, fail, ext_bits, ext_pitch, type, width, height, bpp, masks) ==
    FreeImage_AllocateBitmap(hp, sb, fail, FALSE, ext_bits, ext_pitch, type, width, height, bpp,
                             masks)

-----------------------------------------------------------------------------
(* Reads.  A pointer whose target the running call has released is          *)
(* dangling: the read goes to whatever object now lives at the address,     *)
(* else to the bytes the released object left behind.                       *)

Dangling(hp, a) ==
    a # NULL /\ a \in hp.stale

Mark(hp, a) ==
    IF Dangling(hp, a) THEN [hp EXCEPT !.uaf = TRUE] ELSE hp

Crash(hp) ==
    [hp EXCEPT !.crashed = TRUE]

HasDib(hp, a) ==
    a \in DOMAIN hp.dibs \/ (a \notin hp.live /\ a \in DOMAIN hp.old.dibs)

RdDib(hp, a) ==
    IF a \in DOMAIN hp.dibs THEN hp.dibs[a] ELSE hp.old.dibs[a]

HasMd(hp, a) ==
    a \in DOMAIN hp.mdmaps \/ (a \notin hp.live /\ a \in DOMAIN hp.old.mdmaps)

RdMd(hp, a) ==
    IF a \in DOMAIN hp.mdmaps THEN hp.mdmaps[a] ELSE hp.old.mdmaps[a]

HasTagmap(hp, a) ==
    a \in DOMAIN hp.tagmaps \/ (a \notin hp.live /\ a \in DOMAIN hp.old.tagmaps)

RdTagmap(hp, a) ==
    IF a \in DOMAIN hp.tagmaps THEN hp.tagmaps[a] ELSE hp.old.tagmaps[a]

HasTag(hp, a) ==
    a \in DOMAIN hp.tags \/ (a \notin hp.live /\ a \in DOMAIN hp.old.tags)

RdTag(hp, a) ==
    IF a \in DOMAIN hp.tags THEN hp.tags[a] ELSE hp.old.tags[a]

HasBuf(hp, a) ==
    a \in DOMAIN hp.bufs \/ (a \notin hp.live /\ a \in DOMAIN hp.old.bufs)

RdBuf(hp, a) ==
    IF a \in DOMAIN hp.bufs THEN hp.bufs[a] ELSE hp.old.bufs[a]


-----------------------------------------------------------------------------
(* Accessors.                                                               *)

FreeImage_GetThumbnail(hp, dib) ==
    IF dib # NULL THEN hp.dibs[dib].thumbnail ELSE NULL

FreeImage_HasPixels(hp, dib) ==
    IF dib # NULL THEN RdDib(hp, dib).has_pixels ELSE FALSE

FreeImage_HasRGBMasks(d) ==
    d.biCompression = BI_BITFIELDS

FI_RGBA_MASKS == <<16711680, 65280, 255>>

\* FreeImage_GetRedMask, FreeImage_GetGreenMask, FreeImage_GetBlueMask as one triple
FreeImage_GetMasks(d) ==
    IF d.type = "FIT_BITMAP"
    THEN IF FreeImage_HasRGBMasks(d) THEN d.masks
         ELSE IF d.biBitCount >= 24 THEN FI_RGBA_MASKS ELSE <<0, 0, 0>>
    ELSE <<0, 0, 0>>

\* unsigned arithmetic: the product and the sum wrap at 2^32
FreeImage_GetLine(d) ==
    Shr(Trunc(BAdd(Trunc(BMul(Num(d.biWidth), Num(d.biBitCount)), UnsignedBits), Num(7)),
              UnsignedBits), 3)

\* a pitch that is not rounded up to a multiple of four bytes
GetPitch_Unaligned(d) ==
    IF d.external_bits # NULL THEN Num(d.external_pitch) ELSE FreeImage_GetLine(d)

FreeImage_GetPitch(d) ==
    IF d.external_bits # NULL THEN Num(d.external_pitch)
    ELSE Shl(Shr(Trunc(BAdd(FreeImage_GetLine(d), Num(3)), UnsignedBits), 2), 2)

FreeImage_SetDotsPerMeterX(hp, dib, res) ==
    IF dib # NULL THEN [hp EXCEPT !.dibs[dib].biXPelsPerMeter = res] ELSE hp

FreeImage_SetDotsPerMeterY(hp, dib, res) ==
    IF dib # NULL THEN [hp EXCEPT !.dibs[dib].biYPelsPerMeter = res] ELSE hp


-----------------------------------------------------------------------------
(* Teardown.                                                                *)

\* FreeImage_DeleteTag on every entry of a tag map
RECURSIVE DeleteTags(_, _)
DeleteTags(hp, tagmap) ==
    IF DOMAIN tagmap = {} THEN hp
    ELSE LET k == CHOOSE x \in DOMAIN tagmap : TRUE
         IN  DeleteTags(IF tagmap[k] # NULL THEN Free(hp, tagmap[k]) ELSE hp, Without(tagmap, k))

\* every tag of the tag map at the address, then the tag map
DeleteTagmap(hp, tagmap) ==
    IF tagmap = NULL THEN hp
    ELSE IF tagmap \notin DOMAIN hp.tagmaps THEN [hp EXCEPT !.uaf = TRUE, !.dfree = TRUE]
    ELSE Free(DeleteTags(hp, hp.tagmaps[tagmap]), tagmap)

RECURSIVE DeleteModels(_, _)
DeleteModels(hp, metadata) ==
    IF DOMAIN metadata = {} THEN hp
    ELSE LET m == CHOOSE x \in DOMAIN metadata : \A y \in DOMAIN metadata : x <= y
         IN  DeleteModels(DeleteTagmap(hp, metadata[m]), Without(metadata, m))

\* an Unload that leaves the ICC bytes allocated
UnloadICC_Leak(hp, d) ==
    hp

UnloadICC(hp, d) ==
    IF d.iccProfile.data # NULL THEN Free(hp, d.iccProfile.data) ELSE hp

UnloadMetadata(hp, metadata) ==
    IF metadata \in DOMAIN hp.mdmaps
    THEN Free(DeleteModels(hp, hp.mdmaps[metadata]), metadata)
    ELSE [hp EXCEPT !.uaf = TRUE, !.dfree = TRUE]

RECURSIVE FreeImage_Unload(_, _)

UnloadBlock(hp, dib, d) ==
    Free(Free(FreeImage_Unload(UnloadMetadata(UnloadICC(hp, d), d.metadata), d.thumbnail),
              d.data),
         dib)

FreeImage_Unload(hp, dib) ==
    IF dib = NULL THEN hp
    ELSE IF dib \notin DOMAIN hp.dibs THEN [hp EXCEPT !.uaf = TRUE, !.dfree = TRUE]
    ELSE UnloadBlock(hp, dib, hp.dibs[dib])

-----------------------------------------------------------------------------
(* Metadata store.                                                          *)

FIMD_EXIF_MAIN == 1

FIMD_IPTC == 6

FIMD_ANIMATION == 9

NoKey == "<null>"

NoTag == [null |-> TRUE]

FIDT_BYTE == 1

FIDT_SHORT == 3

FIDT_LONG == 4

\* FreeImage_TagDataWidth
TagDataWidth(type) ==
    IF type = FIDT_SHORT THEN 2 ELSE IF type = FIDT_LONG THEN 4 ELSE 1

\* TagLib::getTagID for the IPTC table, -1 for a key it does not know
TagLibID(key) ==
    IF key = "a" THEN 5 ELSE -1

Uint16(n) ==
    n % 65536

\* count * width != length, the product taken in 32-bit unsigned arithmetic
BadCount(tag) ==
    Trunc(BMul(Num(tag.count), Num(TagDataWidth(tag.type))), UnsignedBits) # Num(tag.length)

\* FreeImage_CloneTag: a new tag object with the same fields
FreeImage_CloneTag(hp, tag) ==
    LET m == Malloc(hp)
    IN  [hp |-> IF m.addr = NULL THEN m.hp ELSE [m.hp EXCEPT !.tags = With(@, m.addr, tag)],
         addr |-> m.addr]

\* the tag map of `model`, NULL when the handle has none
ModelOf(hp, dib, model) ==
    LET mm == hp.mdmaps[hp.dibs[dib].metadata]
    IN  IF model \in DOMAIN mm THEN mm[model] ELSE NULL

\* m is the outcome of new TAGMAP
CreateModel(m, metadata, model) ==
    IF m.addr = NULL THEN m.hp
    ELSE [m.hp EXCEPT !.tagmaps = With(@, m.addr, <<>>),
                      !.mdmaps[metadata] = With(@, model, m.addr)]

EnsureModel(hp, dib, model) ==
    IF ModelOf(hp, dib, model) # NULL THEN hp
    ELSE CreateModel(Malloc(hp), hp.dibs[dib].metadata, model)

DropTag(hp, tagmap, key) ==
    IF key \in DOMAIN hp.tagmaps[tagmap] /\ hp.tagmaps[tagmap][key] # NULL
    THEN Free(hp, hp.tagmaps[tagmap][key])
    ELSE hp

\* c is the outcome of FreeImage_CloneTag
StoreClone(c, tagmap, key) ==
    IF c.addr = NULL THEN c.hp
    ELSE [c.hp EXCEPT !.tagmaps[tagmap] = With(@, key, c.addr)]

\* a stored key keeps the tag it has
ReplaceTag_KeepFirst(hp, tagmap, key, tag) ==
    IF key \in DOMAIN hp.tagmaps[tagmap] THEN hp
    ELSE StoreClone(FreeImage_CloneTag(hp, tag), tagmap, key)

ReplaceTag(hp, tagmap, key, tag) ==
    StoreClone(FreeImage_CloneTag(DropTag(hp, tagmap, key), tag), tagmap, key)

\* a removal that empties the model
EraseTag_All(hp, tagmap, key) ==
    IF key \in DOMAIN hp.tagmaps[tagmap]
    THEN [DeleteTags(hp, hp.tagmaps[tagmap]) EXCEPT !.tagmaps[tagmap] = <<>>]
    ELSE hp

EraseTag(hp, tagmap, key) ==
    IF key \in DOMAIN hp.tagmaps[tagmap]
    THEN [DropTag(hp, tagmap, key) EXCEPT !.tagmaps[tagmap] = Without(@, key)]
    ELSE hp

WithID(model, key, tag) ==
    IF model = FIMD_IPTC THEN [tag EXCEPT !.id = Uint16(TagLibID(key))] ELSE tag

\* the branch for a present key, once the model exists
SetKeyed(hp, model, tagmap, key, tag) ==
    IF tagmap = NULL THEN Result(hp, FALSE)
    ELSE IF tag # NoTag
    THEN IF BadCount(tag) THEN Result(hp, FALSE)
         ELSE Result(ReplaceTag(hp, tagmap, key, WithID(model, key, [tag EXCEPT !.key = key])),
                     TRUE)
    ELSE Result(EraseTag(hp, tagmap, key), TRUE)

SetInModel(hp, dib, model, key, tag) ==
    SetKeyed(hp, model, ModelOf(hp, dib, model), key, tag)

DestroyModel(hp, dib, model, tagmap) ==
    [Free(DeleteTags(hp, hp.tagmaps[tagmap]), tagmap)
       EXCEPT !.mdmaps[hp.dibs[dib].metadata] = Without(@, model)]

FreeImage_SetMetadata(hp, model, dib, key, tag) ==
    IF dib = NULL THEN Result(hp, FALSE)
    ELSE IF key # NoKey
    THEN IF tag = NoTag /\ ModelOf(hp, dib, model) = NULL THEN Result(hp, TRUE)
         ELSE SetInModel(EnsureModel(hp, dib, model), dib, model, key, tag)
    ELSE IF ModelOf(hp, dib, model) # NULL
    THEN Result(DestroyModel(hp, dib, model, ModelOf(hp, dib, model)), TRUE)
    ELSE Result(hp, TRUE)

\* the address of the stored tag, NULL when there is none
FreeImage_GetMetadata(hp, model, dib, key) ==
    IF dib = NULL \/ key = NoKey THEN NULL
    ELSE LET mm == hp.mdmaps[hp.dibs[dib].metadata]
         IN  IF mm = <<>> THEN NULL
             ELSE IF model \notin DOMAIN mm THEN NULL
             ELSE IF key \in DOMAIN hp.tagmaps[mm[model]] THEN hp.tagmaps[mm[model]][key]
             ELSE NULL

FreeImage_GetMetadataCount(hp, model, dib) ==
    IF dib = NULL THEN 0
    ELSE LET mm == hp.mdmaps[hp.dibs[dib].metadata]
         IN  IF model \in DOMAIN mm /\ mm[model] # NULL
             THEN Cardinality(DOMAIN hp.tagmaps[mm[model]])
             ELSE 0

\* a clone of every tag of src goes into the tag map at dst_tagmap
RECURSIVE CloneTagmapInto(_, _, _, _)
CloneTagmapInto(hp, dst_tagmap, src, keys) ==
    IF keys = {} THEN hp
    ELSE LET k == CHOOSE x \in keys : TRUE
         IN  CloneTagmapInto(StoreClone(FreeImage_CloneTag(hp, RdTag(hp, src[k])), dst_tagmap, k),
                             dst_tagmap, src, keys \ {k})

InstallModel(hp, dst_metadata, model, tagmap) ==
    [hp EXCEPT !.mdmaps[dst_metadata] = With(@, model, tagmap)]

\* m is the outcome of new TAGMAP, src the tag map being copied
FillModel(m, dst_metadata, model, src) ==
    IF m.addr = NULL THEN m.hp
    ELSE IF \E k \in DOMAIN src : ~HasTag(m.hp, src[k]) THEN Crash(m.hp)
    ELSE InstallModel(CloneTagmapInto([m.hp EXCEPT !.tagmaps = With(@, m.addr, <<>>)],
                                      m.addr, src, DOMAIN src),
                      dst_metadata, model, m.addr)

CopyModel(hp, dst_metadata, model, src_tagmap) ==
    IF ~HasTagmap(hp, src_tagmap) THEN Crash(Mark(hp, src_tagmap))
    ELSE FillModel(Malloc(Mark(hp, src_tagmap)), dst_metadata, model, RdTagmap(hp, src_tagmap))

\* a CloneMetadata that does not destroy the model dst holds
DestroyDstModel_Skip(hp, dst, model) ==
    hp

DestroyDstModel(hp, dst, model) ==
    IF model \in DOMAIN hp.mdmaps[hp.dibs[dst].metadata]
    THEN FreeImage_SetMetadata(hp, model, dst, NoKey, NoTag).hp
    ELSE hp

\* the loop of FreeImage_CloneMetadata over the models of the source map, in key order
RECURSIVE CloneModels(_, _, _, _)
CloneModels(hp, dst, src_md, models) ==
    IF models = {} \/ hp.crashed THEN hp
    ELSE LET model == CHOOSE x \in models : \A y \in models : x <= y
         IN  IF model = FIMD_ANIMATION \/ src_md[model] = NULL
             THEN CloneModels(hp, dst, src_md, models \ {model})
             ELSE CloneModels(CopyModel(DestroyDstModel(hp, dst, model), hp.dibs[dst].metadata,
                                        model, src_md[model]),
                              dst, src_md, models \ {model})

CopyResolution(hp, dst, src) ==
    IF hp.crashed THEN Result(hp, FALSE)
    ELSE Result(FreeImage_SetDotsPerMeterY(
                    FreeImage_SetDotsPerMeterX(hp, dst, hp.dibs[src].biXPelsPerMeter),
                    dst, hp.dibs[src].biYPelsPerMeter),
                TRUE)

FreeImage_CloneMetadata(hp, dst, src) ==
    IF src = NULL \/ dst = NULL THEN Result(hp, FALSE)
    ELSE CopyResolution(CloneModels(hp, dst, hp.mdmaps[hp.dibs[src].metadata],
                                    DOMAIN hp.mdmaps[hp.dibs[src].metadata]),
                        dst, src)

-----------------------------------------------------------------------------
(* ICC profile.                                                             *)

ICCKey == "InterColorProfile"

\* a clearing that zeroes the whole profile, the flags too
ClearICC_ResetFlags(hp, dib) ==
    [UnloadICC(hp, hp.dibs[dib]) EXCEPT !.dibs[dib].iccProfile = NoICC]

ClearICC(hp, dib) ==
    [UnloadICC(hp, hp.dibs[dib]) EXCEPT !.dibs[dib].iccProfile.data = NULL,
                                        !.dibs[dib].iccProfile.size = 0]

FreeImage_DestroyICCProfile(hp, dib) ==
    FreeImage_SetMetadata(IF dib = NULL THEN hp ELSE ClearICC(hp, dib),
                          FIMD_EXIF_MAIN, dib, ICCKey, NoTag).hp

\* m is the outcome of malloc(size)
StoreICC(m, dib, data, size) ==
    IF m.addr = NULL THEN m.hp
    ELSE [m.hp EXCEPT !.bufs = With(@, m.addr, SubSeq(data, 1, size)),
                      !.dibs[dib].iccProfile.data = m.addr,
                      !.dibs[dib].iccProfile.size = size]

\* data is the byte string the caller passes, size the length the caller gives
FreeImage_CreateICCProfile(hp, dib, data, size) ==
    IF size # 0 /\ dib # NULL
    THEN StoreICC(Malloc(FreeImage_DestroyICCProfile(hp, dib)), dib, data, size)
    ELSE FreeImage_DestroyICCProfile(hp, dib)

-----------------------------------------------------------------------------
(* Clone and the thumbnail.                                                 *)

\* the rows Clone copies out of a caller-owned buffer, laid out at the new pitch
CopyRows(ext, pitch, linesize, height, npitch) ==
    LET cells == {c \in (0..(height - 1)) \X (0..(linesize - 1)) :
                     (c[1] * pitch + c[2]) \in DOMAIN ext}
    IN  [o \in {c[1] * npitch + c[2] : c \in cells} |->
            ext[(o \div npitch) * pitch + (o % npitch)]]

\* the metadata loop of FreeImage_Clone, in key order
RECURSIVE CloneAllModels(_, _, _, _)
CloneAllModels(hp, dst_metadata, src_md, models) ==
    IF models = {} \/ hp.crashed THEN hp
    ELSE LET model == CHOOSE x \in models : \A y \in models : x <= y
         IN  IF src_md[model] = NULL
             THEN CloneAllModels(hp, dst_metadata, src_md, models \ {model})
             ELSE CloneAllModels(CopyModel(hp, dst_metadata, model, src_md[model]),
                                 dst_metadata, src_md, models \ {model})

\* memcpy of the block, after which the links of new_dib are restored or reset
CloneBlock(hp, new_dib, d) ==
    [hp EXCEPT !.dibs[new_dib] =
        [d EXCEPT !.data = hp.dibs[new_dib].data,
                  !.dib_size = hp.dibs[new_dib].dib_size,
                  !.bits = IF ~d.has_pixels \/ d.external_bits # NULL
                           THEN hp.dibs[new_dib].bits ELSE d.bits,
                  !.iccProfile = NoICC,
                  !.metadata = hp.dibs[new_dib].metadata,
                  !.thumbnail = NULL,
                  !.external_bits = NULL,
                  !.external_pitch = 0]]

SetICCFlags(hp, dib, flags) ==
    [hp EXCEPT !.dibs[dib].iccProfile.flags = flags]

CloneICC(hp, new_dib, icc) ==
    IF icc.size # 0 /\ ~HasBuf(hp, icc.data) THEN Crash(hp)
    ELSE SetICCFlags(FreeImage_CreateICCProfile(hp, new_dib,
                         IF icc.size # 0 THEN RdBuf(hp, icc.data) ELSE <<>>, icc.size),
                     new_dib, icc.flags)

CloneTags(hp, new_dib, metadata) ==
    IF hp.crashed THEN hp
    ELSE IF ~HasMd(hp, metadata) THEN Crash(hp)
    ELSE CloneAllModels(hp, hp.dibs[new_dib].metadata, RdMd(hp, metadata),
                        DOMAIN RdMd(hp, metadata))

RECURSIVE FreeImage_SetThumbnail(_, _, _, _)

\* a Clone that keeps the thumbnail pointer the memcpy brought along
CloneThumbnail_Shared(hp, sb, new_dib, thumbnail) ==
    [hp EXCEPT !.dibs[new_dib].thumbnail = thumbnail]

CloneThumbnail(hp, sb, new_dib, thumbnail) ==
    IF hp.crashed THEN hp
    ELSE FreeImage_SetThumbnail(hp, sb, new_dib, thumbnail).hp

\* a copy that reads the rows of the caller's buffer at the pitch of the clone
CloneExternal_OwnPitch(hp, new_dib, d) ==
    IF d.external_bits = NULL \/ hp.crashed THEN hp
    ELSE IF ~HasBuf(hp, d.external_bits) THEN Crash(hp)
    ELSE [hp EXCEPT !.dibs[new_dib].bits =
             CopyRows(RdBuf(hp, d.external_bits), ToNat(FreeImage_GetPitch(hp.dibs[new_dib])),
                      ToNat(FreeImage_GetLine(d)), d.biHeight,
                      ToNat(FreeImage_GetPitch(hp.dibs[new_dib])))]

CloneExternal(hp, new_dib, d) ==
    IF d.external_bits = NULL \/ hp.crashed THEN hp
    ELSE IF ~HasBuf(hp, d.external_bits) THEN Crash(hp)
    ELSE [hp EXCEPT !.dibs[new_dib].bits =
             CopyRows(RdBuf(hp, d.external_bits), ToNat(FreeImage_GetPitch(d)),
                      ToNat(FreeImage_GetLine(d)), d.biHeight,
                      ToNat(FreeImage_GetPitch(hp.dibs[new_dib])))]

\* everything FreeImage_Clone does to the handle it allocated; d is the source block
CloneFrom(hp, sb, new_dib, d) ==
    CloneExternal(
        CloneThumbnail(
            CloneTags(CloneICC(CloneBlock(hp, new_dib, d), new_dib, d.iccProfile),
                      new_dib, d.metadata),
            sb, new_dib, d.thumbnail),
        new_dib, d)

\* the number of bytes FreeImage_Clone copies from the block d to the new block
CloneCopySize(sb, d) ==
    FreeImage_GetInternalImageSize(sb, ~d.has_pixels \/ d.external_bits # NULL, Num(d.biWidth),
                                   Num(d.biHeight), d.biBitCount,
                                   d.biBitCount = 16 /\ d.type = "FIT_BITMAP")

\* a is the outcome of FreeImage_AllocateHeaderT
CloneInto(a, sb, dib) ==
    IF a.res = NULL THEN Result(a.hp, NULL)
    ELSE IF ~HasDib(a.hp, dib) THEN Result(Crash(a.hp), a.res)
    ELSE Result(CloneFrom(a.hp, sb, a.res, RdDib(a.hp, dib)), a.res)

\* a new handle of the type, size, depth and masks of the block d
AllocLike(hp, sb, d) ==
    FreeImage_AllocateHeaderT(hp, sb, "none", ~d.has_pixels, d.type, d.biWidth, d.biHeight,
                              d.biBitCount, FreeImage_GetMasks(d))

FreeImage_Clone(hp, sb, dib) ==
    IF dib = NULL THEN Result(hp, NULL)
    ELSE IF ~HasDib(hp, dib) THEN Result(Crash(Mark(hp, dib)), NULL)
    ELSE CloneInto(AllocLike(Mark(hp, dib), sb, RdDib(hp, dib)), sb, dib)

\* c is the outcome of FreeImage_Clone
StoreThumbnail(c, dib) ==
    Result([c.hp EXCEPT !.dibs[dib].thumbnail = c.res], TRUE)

\* a SetThumbnail that stores the handle it was given
AttachThumbnail_Alias(hp, sb, dib, thumbnail) ==
    Result([hp EXCEPT !.dibs[dib].thumbnail = thumbnail], TRUE)

\* hp is the heap after the previous thumbnail was unloaded
AttachThumbnail(hp, sb, dib, thumbnail) ==
    IF thumbnail # NULL /\ ~HasDib(hp, thumbnail) THEN Result(Crash(hp), TRUE)
    ELSE IF FreeImage_HasPixels(hp, thumbnail)
    THEN StoreThumbnail(FreeImage_Clone(hp, sb, thumbnail), dib)
    ELSE StoreThumbnail(Result(hp, NULL), dib)

FreeImage_SetThumbnail(hp, sb, dib, thumbnail) ==
    IF dib = NULL THEN Result(hp, FALSE)
    ELSE IF FreeImage_GetThumbnail(hp, dib) = thumbnail THEN Result(hp, TRUE)
    ELSE AttachThumbnail(Mark(FreeImage_Unload(hp, FreeImage_GetThumbnail(hp, dib)), thumbnail),
                         sb, dib, thumbnail)

-----------------------------------------------------------------------------
(* Iteration over the tags of a model.  The FIMETADATA wrapper and the      *)
(* METADATAHEADER it points to are two allocations.                         *)

\* the place of a key in the order of std::map<std::string, FITAG*>
KeyRank(key) ==
    CASE key = ICCKey -> 0
      [] key = "PhotometricInterpretation" -> 1
      [] key = "a" -> 2
      [] key = "b" -> 3

\* the key std::next(tagmap->begin(), pos) stands at
KeyAt(tm, pos) ==
    CHOOSE k \in DOMAIN tm : Cardinality({j \in DOMAIN tm : KeyRank(j) < KeyRank(k)}) = pos

Found(hp, res, tag) == [hp |-> hp, res |-> res, tag |-> tag]

\* m2 is the outcome of malloc(header_size); past_end is what the read through
\* the iterator of an empty map yields, an invalid read recorded like a read of
\* released memory
OpenCursor(m2, handle, tagmap, past_end) ==
    IF m2.addr = NULL THEN Found(Free(m2.hp, handle), NULL, NULL)
    ELSE LET tm == m2.hp.tagmaps[tagmap]
             hp == [m2.hp EXCEPT !.bufs = With(With(@, handle, [data |-> m2.addr]), m2.addr,
                                               [pos |-> 1, tagmap |-> tagmap])]
         IN  IF DOMAIN tm = {} THEN Found([hp EXCEPT !.uaf = TRUE], handle, past_end)
             ELSE Found(hp, handle, tm[KeyAt(tm, 0)])

\* m1 is the outcome of malloc(sizeof(FIMETADATA))
AllocCursor(m1, tagmap, past_end) ==
    IF m1.addr = NULL THEN Found(m1.hp, NULL, NULL)
    ELSE OpenCursor(Malloc(m1.hp), m1.addr, tagmap, past_end)

FreeImage_FindFirstMetadata(hp, model, dib, past_end) ==
    IF dib = NULL THEN Found(hp, NULL, NULL)
    ELSE IF ModelOf(hp, dib, model) = NULL THEN Found(hp, NULL, NULL)
    ELSE AllocCursor(Malloc(hp), ModelOf(hp, dib, model), past_end)

\* res is TRUE when a tag was handed out
FreeImage_FindNextMetadata(hp, mdhandle) ==
    IF mdhandle = NULL THEN Found(hp, FALSE, NULL)
    ELSE LET data == hp.bufs[mdhandle].data
             mdh == hp.bufs[data]
             tm == hp.tagmaps[mdh.tagmap]
         IN  IF mdh.pos < Cardinality(DOMAIN tm)
             THEN Found([hp EXCEPT !.bufs[data].pos = @ + 1], TRUE, tm[KeyAt(tm, mdh.pos)])
             ELSE Found(hp, FALSE, NULL)

FreeImage_FindCloseMetadata(hp, mdhandle) ==
    IF mdhandle # NULL THEN Free(Free(hp, hp.bufs[mdhandle].data), mdhandle) ELSE hp

-----------------------------------------------------------------------------
(* Accessors on a handle.  A pointer into the block is the block and the    *)
(* byte offset in it; the null pointer has no block.                        *)

Pointer(block, offset) == [block |-> block, offset |-> offset]

NullPointer == Pointer(NULL, 0)

\* the offset of the info header in the block
InfoOffset(sb) ==
    SizeofHeader(sb) + PadTo(SizeofHeader(sb), FIBITMAP_ALIGNMENT)
        + (FIBITMAP_ALIGNMENT - (SizeofInfoHeader % FIBITMAP_ALIGNMENT))

\* the null handle yields a pointer past a block of its own
GetInfoHeader_Unchecked(hp, sb, dib) ==
    IF dib = NULL THEN Pointer(NULL, InfoOffset(sb))
    ELSE Pointer(hp.dibs[dib].data, InfoOffset(sb))

FreeImage_GetInfoHeader(hp, sb, dib) ==
    IF dib = NULL THEN NullPointer
    ELSE Pointer(hp.dibs[dib].data, InfoOffset(sb))

FreeImage_GetImageType(hp, dib) ==
    IF dib # NULL THEN hp.dibs[dib].type ELSE "FIT_UNKNOWN"

FreeImage_GetWidth(hp, dib) ==
    IF dib # NULL THEN hp.dibs[dib].biWidth ELSE 0

FreeImage_GetHeight(hp, dib) ==
    IF dib # NULL THEN hp.dibs[dib].biHeight ELSE 0

FreeImage_GetBPP(hp, dib) ==
    IF dib # NULL THEN hp.dibs[dib].biBitCount ELSE 0

FreeImage_GetColorsUsed(hp, dib) ==
    IF dib # NULL THEN hp.dibs[dib].biClrUsed ELSE 0

\* FreeImage_GetLine and FreeImage_GetPitch of a handle
LineOf(hp, dib) ==
    IF dib # NULL THEN FreeImage_GetLine(hp.dibs[dib]) ELSE Num(0)

PitchOf(hp, dib) ==
    IF dib # NULL THEN FreeImage_GetPitch(hp.dibs[dib]) ELSE Num(0)

FreeImage_GetPalette(hp, sb, dib) ==
    IF dib # NULL /\ FreeImage_GetBPP(hp, dib) < 16
    THEN Pointer(hp.dibs[dib].data, FreeImage_GetInfoHeader(hp, sb, dib).offset + SizeofInfoHeader)
    ELSE NullPointer

\* FreeImage_HasRGBMasks of a handle
HasMasksOf(hp, dib) ==
    dib # NULL /\ FreeImage_HasRGBMasks(hp.dibs[dib])

\* FreeImage_GetRGBMasks: the masks follow the info header
FreeImage_GetRGBMasks(hp, sb, dib) ==
    IF HasMasksOf(hp, dib)
    THEN Pointer(hp.dibs[dib].data, FreeImage_GetInfoHeader(hp, sb, dib).offset + SizeofInfoHeader)
    ELSE NullPointer

\* an offset of the pixels that is not padded to the alignment
BitsOffset_Unpadded(hp, sb, dib) ==
    FreeImage_GetInfoHeader(hp, sb, dib).offset + SizeofInfoHeader
        + SizeofRGBA8 * FreeImage_GetColorsUsed(hp, dib)
        + (IF HasMasksOf(hp, dib) THEN SizeofMasks ELSE 0)

\* the offset of the pixels the block holds
BitsOffset(hp, sb, dib) ==
    LET lp == FreeImage_GetInfoHeader(hp, sb, dib).offset + SizeofInfoHeader
                  + SizeofRGBA8 * FreeImage_GetColorsUsed(hp, dib)
                  + (IF HasMasksOf(hp, dib) THEN SizeofMasks ELSE 0)
    IN  lp + PadTo(lp, FIBITMAP_ALIGNMENT)

FreeImage_GetBits(hp, sb, dib) ==
    IF ~FreeImage_HasPixels(hp, dib) THEN NullPointer
    ELSE IF hp.dibs[dib].external_bits # NULL THEN Pointer(hp.dibs[dib].external_bits, 0)
    ELSE Pointer(hp.dibs[dib].data, BitsOffset(hp, sb, dib))

\* FreeImage_GetRedMask, FreeImage_GetGreenMask, FreeImage_GetBlueMask of a handle
MasksOf(hp, dib) ==
    IF FreeImage_GetImageType(hp, dib) = "FIT_BITMAP" THEN FreeImage_GetMasks(hp.dibs[dib])
    ELSE <<0, 0, 0>>

Accessors ==
    {"Width", "Height", "BitsPerPixel", "LineBytes", "PitchBytes", "ColorsUsed", "Palette",
     "InfoBlock", "PixelPointer", "HasPixels", "HasChannelMasks", "RedMask", "GreenMask",
     "BlueMask"}

\* what the accessor called name returns for the handle
Accessed(hp, sb, name, dib) ==
    CASE name = "Width" -> FreeImage_GetWidth(hp, dib)
      [] name = "Height" -> FreeImage_GetHeight(hp, dib)
      [] name = "BitsPerPixel" -> FreeImage_GetBPP(hp, dib)
      [] name = "LineBytes" -> ToNat(LineOf(hp, dib))
      [] name = "PitchBytes" -> ToNat(PitchOf(hp, dib))
      [] name = "ColorsUsed" -> FreeImage_GetColorsUsed(hp, dib)
      [] name = "Palette" -> FreeImage_GetPalette(hp, sb, dib)
      [] name = "InfoBlock" -> FreeImage_GetInfoHeader(hp, sb, dib)
      [] name = "PixelPointer" -> FreeImage_GetBits(hp, sb, dib)
      [] name = "HasPixels" -> FreeImage_HasPixels(hp, dib)
      [] name = "HasChannelMasks" -> HasMasksOf(hp, dib)
      [] name = "RedMask" -> MasksOf(hp, dib)[1]
      [] name = "GreenMask" -> MasksOf(hp, dib)[2]
      [] name = "BlueMask" -> MasksOf(hp, dib)[3]

-----------------------------------------------------------------------------
(* Transparency.  A table passed to the library is a buffer of the caller   *)
(* or of the library, read byte by byte.                                    *)

FreeImage_GetTransparencyCount(hp, dib) ==
    IF dib # NULL THEN hp.dibs[dib].transparency_count ELSE 0

\* byte i of the buffer at table; a byte of the caller's buffer that was never written is 0
TableByte(hp, table, i) ==
    IF i \in DOMAIN hp.bufs[table] THEN hp.bufs[table][i] ELSE 0

\* MAX(0, MIN(count, 256))
ClampCount(count) ==
    IF count > 256 THEN 256 ELSE IF count < 0 THEN 0 ELSE count

\* the branch for a bitmap of at most 8 bits; count is clamped already
StoreTable(hp, dib, table, count) ==
    [hp EXCEPT !.dibs[dib].transparent = (count > 0),
               !.dibs[dib].transparency_count = count,
               !.dibs[dib].transparent_table =
                   [i \in 0..255 |-> IF i >= count THEN @[i]
                                     ELSE IF table # NULL THEN TableByte(hp, table, i)
                                     ELSE 255]]

FreeImage_SetTransparencyTable(hp, dib, table, count) ==
    IF dib = NULL THEN hp
    ELSE IF FreeImage_GetBPP(hp, dib) <= 8 THEN StoreTable(hp, dib, table, ClampCount(count))
    ELSE hp

\* a table that marks no entry
IndexTable_Opaque(count, index) ==
    [i \in 0..(count - 1) |-> 255]

\* new_tt after the memset and the write at index
IndexTable(count, index) ==
    [i \in 0..(count - 1) |-> IF index >= 0 /\ index < count /\ i = index THEN 0 ELSE 255]

\* m is the outcome of malloc(count), which the code does not test
FillIndex(m, dib, count, index) ==
    IF m.addr = NULL THEN Crash(m.hp)
    ELSE Free(FreeImage_SetTransparencyTable(
                  [m.hp EXCEPT !.bufs = With(@, m.addr, IndexTable(count, index))],
                  dib, m.addr, count),
              m.addr)

FreeImage_SetTransparentIndex(hp, dib, index) ==
    IF dib = NULL THEN hp
    ELSE IF FreeImage_GetColorsUsed(hp, dib) = 0 THEN hp
    ELSE FillIndex(Malloc(hp), dib, FreeImage_GetColorsUsed(hp, dib), index)

\* the first entry below the count that is 0, -1 when there is none
FreeImage_GetTransparentIndex(hp, dib) ==
    LET count == FreeImage_GetTransparencyCount(hp, dib)
        zeros == {i \in 0..(count - 1) : hp.dibs[dib].transparent_table[i] = 0}
    IN  IF zeros = {} THEN 0 - 1
        ELSE CHOOSE i \in zeros : \A j \in zeros : i <= j

-----------------------------------------------------------------------------
(* Colour type.                                                             *)

FIICC_COLOR_IS_CMYK == 1

FIICC_COLOR_IS_YUV == 2

\* (flags & bit) == bit, for a flag of one bit
HasFlag(flags, bit) ==
    (flags \div bit) % 2 = 1

Black == <<0, 0, 0>>

White == <<255, 255, 255>>

\* the first test of the 1-bit case: rgb is where the pointer stands afterwards
MonoFirst(pal) ==
    IF pal[0] = Black
    THEN IF pal[1] = White
         THEN [res |-> "FIC_MINISBLACK", rgb |-> 1, reads |-> {0, 1}]
         ELSE [res |-> "", rgb |-> 1, reads |-> {0, 1}]
    ELSE [res |-> "", rgb |-> 0, reads |-> {0}]

\* a second test that never finds a white-first palette
MonoSecond_Blind(pal, f) ==
    IF f.res # "" THEN [res |-> f.res, reads |-> f.reads]
    ELSE [res |-> "FIC_PALETTE", reads |-> f.reads \cup {f.rgb}]

\* the second test reads through the pointer the first test left
MonoSecond(pal, f) ==
    IF f.res # "" THEN [res |-> f.res, reads |-> f.reads]
    ELSE IF pal[f.rgb] = White
    THEN [res |-> IF pal[f.rgb + 1] = Black THEN "FIC_MINISWHITE" ELSE "FIC_PALETTE",
          reads |-> f.reads \cup {f.rgb, f.rgb + 1}]
    ELSE [res |-> "FIC_PALETTE", reads |-> f.reads \cup {f.rgb}]

\* the entries at which the loop of the 4- and 8-bit case returns FIC_PALETTE
GreyStops(pal, ncolors) ==
    {i \in 0..(ncolors - 1) : \/ pal[i][1] # pal[i][2] \/ pal[i][1] # pal[i][3]
                               \/ (pal[i][1] # i /\ (ncolors - i - 1) # pal[i][1])}

\* the loop ran to its end: minisblack was cleared at every entry that is not its index
GreyScan(pal, ncolors) ==
    IF GreyStops(pal, ncolors) # {} THEN "FIC_PALETTE"
    ELSE IF \E i \in 0..(ncolors - 1) : pal[i][1] # i THEN "FIC_MINISWHITE"
    ELSE "FIC_MINISBLACK"

\* byte o of scanline y, read where FreeImage_GetBits points
ScanLineByte(hp, d, y, o) ==
    LET src == IF d.external_bits # NULL THEN hp.bufs[d.external_bits] ELSE d.bits
        at == y * ToNat(FreeImage_GetPitch(d)) + o
    IN  IF at \in DOMAIN src THEN src[at] ELSE 0

\* a scan that looks at the first pixel of each row only
AlphaScan_FirstColumn(hp, d) ==
    IF \E y \in 0..(d.biHeight - 1) : ScanLineByte(hp, d, y, 3) # 255
    THEN "FIC_RGBALPHA" ELSE "FIC_RGB"

\* the alpha byte is the fourth of the four bytes of a pixel
AlphaScan(hp, d) ==
    IF \E y \in 0..(d.biHeight - 1), x \in 0..(d.biWidth - 1) :
           ScanLineByte(hp, d, y, 4 * x + 3) # 255
    THEN "FIC_RGBALPHA" ELSE "FIC_RGB"

\* the branch for the image types other than FIT_BITMAP
SpecialColorType(hp, dib, d) ==
    IF d.type = "FIT_UINT16"
    THEN LET t == FreeImage_GetMetadata(hp, FIMD_EXIF_MAIN, dib, "PhotometricInterpretation")
         IN  IF t # NULL /\ hp.tags[t].value[1] = 0 THEN "FIC_MINISWHITE" ELSE "FIC_MINISBLACK"
    ELSE IF d.type \in {"FIT_RGB32", "FIT_RGB16", "FIT_RGBF"}
    THEN IF HasFlag(d.iccProfile.flags, FIICC_COLOR_IS_YUV) THEN "FIC_YUV" ELSE "FIC_RGB"
    ELSE IF d.type \in {"FIT_RGBA32", "FIT_RGBA16", "FIT_RGBAF"}
    THEN IF HasFlag(d.iccProfile.flags, FIICC_COLOR_IS_CMYK) THEN "FIC_CMYK"
         ELSE IF HasFlag(d.iccProfile.flags, FIICC_COLOR_IS_YUV) THEN "FIC_YUV"
         ELSE "FIC_RGBALPHA"
    ELSE "FIC_MINISBLACK"

\* the switch over the bit depth of a FIT_BITMAP
BitmapColorType(hp, d, scan_alpha) ==
    IF d.biBitCount = 1 THEN MonoSecond(d.palette, MonoFirst(d.palette)).res
    ELSE IF d.biBitCount \in {4, 8} THEN GreyScan(d.palette, d.biClrUsed)
    ELSE IF d.biBitCount \in {16, 24}
    THEN IF HasFlag(d.iccProfile.flags, FIICC_COLOR_IS_YUV) THEN "FIC_YUV" ELSE "FIC_RGB"
    ELSE IF d.biBitCount = 32
    THEN IF HasFlag(d.iccProfile.flags, FIICC_COLOR_IS_CMYK) THEN "FIC_CMYK"
         ELSE IF HasFlag(d.iccProfile.flags, FIICC_COLOR_IS_YUV) THEN "FIC_YUV"
         ELSE IF scan_alpha /\ d.has_pixels THEN AlphaScan(hp, d)
         ELSE "FIC_RGBALPHA"
    ELSE "FIC_MINISBLACK"

FreeImage_GetColorType2(hp, dib, scan_alpha) ==
    IF dib = NULL THEN "FIC_MINISBLACK"
    ELSE IF hp.dibs[dib].type # "FIT_BITMAP" THEN SpecialColorType(hp, dib, hp.dibs[dib])
    ELSE BitmapColorType(hp, hp.dibs[dib], scan_alpha)

-----------------------------------------------------------------------------
(* The calls a client makes.  A client holds the handles it was given: the  *)
(* ones Allocate and Clone returned and the thumbnails GetThumbnail hands   *)
(* out.  It unloads only handles it owns, never a thumbnail another handle  *)
(* owns.  A call that ran into undefined behaviour either went on with what *)
(* it read or ended the process; nothing is called after either.           *)

Handles == DOMAIN dibs

Thumbnails == {dibs[h].thumbnail : h \in Handles} \ {NULL}

Roots == Handles \ Thumbnails

Running == ~crashed /\ ~uaf /\ ~dfree

\* freed: the addresses the call released
Ret(op, dib, src, res, model, key, tag, freed) ==
    [op |-> op, dib |-> dib, src |-> src, res |-> res, model |-> model, key |-> key, tag |-> tag,
     freed |-> freed]

CrashOutcomes(hp) ==
    IF hp.crashed THEN {TRUE}
    ELSE IF hp.uaf \/ hp.dfree THEN {TRUE, FALSE}
    ELSE {FALSE}

Commit(hp) ==
    /\ ~hp.oom
    /\ dibs' = hp.dibs
    /\ mdmaps' = hp.mdmaps
    /\ tagmaps' = hp.tagmaps
    /\ tags' = hp.tags
    /\ bufs' = hp.bufs
    /\ live' = hp.live
    /\ uaf' = hp.uaf
    /\ dfree' = hp.dfree
    /\ crashed' \in CrashOutcomes(hp)
    /\ UNCHANGED <<sizeBits, calc>>

\* r is what the call computed; the handle of Allocate and Clone is r.res
Returns(r, op, dib, src, model, key, tag) ==
    /\ Commit(r.hp)
    /\ ret' = Ret(op, dib, src, r.res, model, key, tag, r.hp.stale)

Allocate(fail, in) ==
    /\ Running
    /\ Returns(FreeImage_AllocateHeaderT(Heap, sizeBits, fail, in.header_only, in.type, in.width,
                                         in.height, in.bpp, in.masks),
               "Allocate", NULL, NULL, 0, fail, in)

AllocateForBits(fail, in, ext_bits, ext_pitch) ==
    /\ Running
    /\ Returns(FreeImage_AllocateHeaderForBits(Heap, sizeBits, fail, ext_bits, ext_pitch, in.type,
                                               in.width, in.height, in.bpp, in.masks),
               "AllocateForBits", NULL, ext_bits, ext_pitch, fail, in)

Unload(dib) ==
    /\ Running
    /\ Returns(Result(FreeImage_Unload(Heap, dib), 0), "Unload", dib,
               IF dib \in Handles THEN dibs[dib].external_bits ELSE NULL, 0, "", <<>>)

Clone(dib) ==
    /\ Running
    /\ Returns(FreeImage_Clone(Heap, sizeBits, dib), "Clone", NULL, dib, 0, "", <<>>)

SetThumbnail(dib, thumbnail) ==
    /\ Running
    /\ Returns(FreeImage_SetThumbnail(Heap, sizeBits, dib, thumbnail),
               "SetThumbnail", dib, thumbnail, 0, "", <<>>)

SetMetadata(model, dib, key, tag) ==
    /\ Running
    /\ Returns(FreeImage_SetMetadata(Heap, model, dib, key, tag),
               "SetMetadata", dib, NULL, model, key, tag)

\* the tag that comes back is reported by value
GetMetadata(model, dib, key) ==
    /\ Running
    /\ LET t == FreeImage_GetMetadata(Heap, model, dib, key)
       IN  ret' = Ret("GetMetadata", dib, NULL, t # NULL, model, key,
                      IF t # NULL THEN tags[t] ELSE NoTag, {})
    /\ UNCHANGED <<heapvars, sizeBits, calc>>

GetMetadataCount(model, dib) ==
    /\ Running
    /\ ret' = Ret("GetMetadataCount", dib, NULL, FreeImage_GetMetadataCount(Heap, model, dib),
                  model, "", <<>>, {})
    /\ UNCHANGED <<heapvars, sizeBits, calc>>

CloneMetadata(dst, src) ==
    /\ Running
    /\ Returns(FreeImage_CloneMetadata(Heap, dst, src), "CloneMetadata", dst, src, 0, "", <<>>)

CreateICCProfile(dib, data, size) ==
    /\ Running
    /\ Returns(Result(FreeImage_CreateICCProfile(Heap, dib, data, size), size),
               "CreateICCProfile", dib, NULL, 0, "", data)

DestroyICCProfile(dib) ==
    /\ Running
    /\ Returns(Result(FreeImage_DestroyICCProfile(Heap, dib), 0),
               "DestroyICCProfile", dib, NULL, 0, "", <<>>)

SetDotsPerMeterX(dib, res) ==
    /\ Running
    /\ Returns(Result(FreeImage_SetDotsPerMeterX(Heap, dib, res), res),
               "SetDotsPerMeterX", dib, NULL, 0, "", <<>>)

SetDotsPerMeterY(dib, res) ==
    /\ Running
    /\ Returns(Result(FreeImage_SetDotsPerMeterY(Heap, dib, res), res),
               "SetDotsPerMeterY", dib, NULL, 0, "", <<>>)

\* the client writes one pixel byte through the pointer FreeImage_GetBits returned
PokeBits(dib, offset, byte) ==
    /\ Running
    /\ dib \in Handles
    /\ dibs[dib].has_pixels
    /\ dibs[dib].external_bits = NULL
    /\ Returns(Result([Heap EXCEPT !.dibs[dib].bits = With(@, offset, byte)], 0),
               "PokeBits", dib, NULL, 0, "", <<offset, byte>>)

\* the client fills the palette through the pointer FreeImage_GetPalette returned
WritePalette(dib, pal) ==
    /\ Running
    /\ dib \in Handles
    /\ dibs[dib].biBitCount < 16
    /\ DOMAIN pal = DOMAIN dibs[dib].palette
    /\ Returns(Result([Heap EXCEPT !.dibs[dib].palette = pal], 0),
               "WritePalette", dib, NULL, 0, "", <<>>)

\* the client sets the flags through the pointer FreeImage_GetICCProfile returned
WriteICCFlags(dib, flags) ==
    /\ Running
    /\ dib \in Handles
    /\ Returns(Result(SetICCFlags(Heap, dib, flags), flags),
               "WriteICCFlags", dib, NULL, 0, "", <<>>)

\* the client writes one byte of the pixel buffer it owns
PokeCaller(offset, byte) ==
    /\ Running
    /\ Returns(Result([Heap EXCEPT !.bufs[CallerBuffer] = With(@, offset, byte)], 0),
               "PokeCaller", NULL, CallerBuffer, 0, "", <<offset, byte>>)

\* the palette entries the 1-bit case read are reported beside the colour type
GetColorType(dib, scan_alpha) ==
    /\ Running
    /\ ret' = Ret("GetColorType", dib, NULL, FreeImage_GetColorType2(Heap, dib, scan_alpha),
                  IF scan_alpha THEN 1 ELSE 0, "",
                  [reads |-> IF dib # NULL /\ dibs[dib].type = "FIT_BITMAP"
                                           /\ dibs[dib].biBitCount = 1
                             THEN MonoSecond(dibs[dib].palette, MonoFirst(dibs[dib].palette)).reads
                             ELSE {}], {})
    /\ UNCHANGED <<heapvars, sizeBits, calc>>

\* the client calls one accessor
Access(name, dib) ==
    /\ Running
    /\ ret' = Ret("Access", dib, NULL, Accessed(Heap, sizeBits, name, dib), 0, name, <<>>, {})
    /\ UNCHANGED <<heapvars, sizeBits, calc>>

\* the cursors that are open
Cursors == {a \in DOMAIN bufs : a # CallerBuffer /\ DOMAIN bufs[a] = {"data"}}

\* src is the tag handed out, tag the tags the cursor has handed out so far
FindFirstMetadata(model, dib, past_end) ==
    /\ Running
    /\ LET r == FreeImage_FindFirstMetadata(Heap, model, dib, past_end)
       IN  /\ Commit(r.hp)
           /\ ret' = Ret("FindFirstMetadata", dib, r.tag, r.res, model, "",
                         IF r.res # NULL THEN <<r.tag>> ELSE <<>>, {})

\* the cursor goes on from the call before: dib and model stay those of its first call
FindNextMetadata(mdhandle) ==
    /\ Running
    /\ ret.op \in {"FindFirstMetadata", "FindNextMetadata"}
    /\ LET r == FreeImage_FindNextMetadata(Heap, mdhandle)
       IN  /\ Commit(r.hp)
           /\ ret' = Ret("FindNextMetadata", ret.dib, r.tag, mdhandle, ret.model,
                         IF r.res THEN "more" ELSE "end",
                         IF r.res THEN Append(ret.tag, r.tag) ELSE ret.tag, {})

FindCloseMetadata(mdhandle) ==
    /\ Running
    /\ Returns(Result(FreeImage_FindCloseMetadata(Heap, mdhandle), 0),
               "FindCloseMetadata", NULL, NULL, 0, "", <<>>)

SetTransparencyTable(dib, table, count) ==
    /\ Running
    /\ Returns(Result(FreeImage_SetTransparencyTable(Heap, dib, table, count), count),
               "SetTransparencyTable", dib, table, 0, "", <<>>)

\* res is the index asked for
SetTransparentIndex(dib, index) ==
    /\ Running
    /\ Returns(Result(FreeImage_SetTransparentIndex(Heap, dib, index), index),
               "SetTransparentIndex", dib, NULL, 0, "", <<>>)

GetTransparentIndex(dib) ==
    /\ Running
    /\ ret' = Ret("GetTransparentIndex", dib, NULL, FreeImage_GetTransparentIndex(Heap, dib),
                  0, "", <<>>, {})
    /\ UNCHANGED <<heapvars, sizeBits, calc>>

-----------------------------------------------------------------------------
(* Lifecycle specification: handles with pixels, tags, profiles and         *)
(* thumbnails are created, cloned, attached to one another and unloaded.    *)

\* what the caller-owned pixel buffer holds: two rows of two bytes at pitch 4
CallerBytes == (0 :> 9) @@ (1 :> 8) @@ (3 :> 1) @@ (4 :> 5)

CallerPitch == 4

MaxRoots == 2

MaxCalls == 5

\* one more call of the client, while its budget of calls lasts
Call(A) ==
    /\ calls < MaxCalls
    /\ A
    /\ calls' = calls + 1

Rgb565 == <<63488, 2016, 31>>

LifeAlloc ==
    [header_only |-> TRUE, type |-> "FIT_BITMAP", width |-> 1, height |-> 1, bpp |-> 16,
     masks |-> Rgb565]

ExtAlloc ==
    [header_only |-> FALSE, type |-> "FIT_BITMAP", width |-> 2, height |-> 2, bpp |-> 8,
     masks |-> <<0, 0, 0>>]

Tag(key, type, count, length, value) ==
    [key |-> key, id |-> 0, type |-> type, count |-> count, length |-> length, value |-> value]

LifeTag == Tag(NoKey, FIDT_BYTE, 2, 2, <<7, 8>>)

LifeICC == <<1, 2>>

Room == Cardinality(Roots) < MaxRoots

Init ==
    /\ dibs = <<>>
    /\ mdmaps = <<>>
    /\ tagmaps = <<>>
    /\ tags = <<>>
    /\ bufs = (CallerBuffer :> CallerBytes)
    /\ live = {CallerBuffer}
    /\ crashed = FALSE
    /\ uaf = FALSE
    /\ dfree = FALSE
    /\ sizeBits = 64
    /\ calc = NoCalc
    /\ ret = NoRet
    /\ calls = 0

Next ==
    \/ Call(Room /\ Allocate("none", LifeAlloc))
    \/ Call(Room /\ AllocateForBits("none", ExtAlloc, CallerBuffer, CallerPitch))
    \/ Call(\E dib \in Roots \cup {NULL} : Unload(dib))
    \/ Call(\E dib \in Roots : Room /\ Clone(dib))
    \/ Call(\E dib \in Handles, thumbnail \in Handles \cup {NULL} : SetThumbnail(dib, thumbnail))
    \/ Call(\E dib \in Roots : SetMetadata(FIMD_EXIF_MAIN, dib, "a", LifeTag))
    \/ Call(\E dst \in Roots : \E src \in Roots \ {dst} : CloneMetadata(dst, src))
    \/ Call(\E dib \in Roots : CreateICCProfile(dib, LifeICC, Len(LifeICC)))

Spec == Init /\ [][Next]_vars

-----------------------------------------------------------------------------
(* Metadata specification: one handle, whose tags are set, replaced,        *)
(* removed, looked up and counted.                                          *)

MetaModels == {FIMD_EXIF_MAIN, FIMD_IPTC}

MetaKeys == {"a", "b"}

ByteTag == Tag(NoKey, FIDT_BYTE, 2, 2, <<7, 8>>)

ShortTag == Tag("b", FIDT_SHORT, 1, 2, <<9>>)

\* two SHORT elements announced, two bytes given
BadTag == Tag("a", FIDT_SHORT, 2, 2, <<9>>)

SetInput(model, key, tag) == [model |-> model, key |-> key, tag |-> tag]

MetaInputs ==
    { SetInput(FIMD_EXIF_MAIN, "a", ByteTag), SetInput(FIMD_EXIF_MAIN, "a", ShortTag),
      SetInput(FIMD_EXIF_MAIN, "a", BadTag), SetInput(FIMD_EXIF_MAIN, "a", NoTag),
      SetInput(FIMD_EXIF_MAIN, "b", ByteTag), SetInput(FIMD_EXIF_MAIN, "b", NoTag),
      SetInput(FIMD_EXIF_MAIN, NoKey, NoTag),
      SetInput(FIMD_IPTC, "a", ByteTag), SetInput(FIMD_IPTC, "b", BadTag),
      SetInput(FIMD_IPTC, "a", NoTag), SetInput(FIMD_IPTC, NoKey, ByteTag) }

\* a call that is not counted against a budget
Uncounted(A) ==
    /\ A
    /\ UNCHANGED calls

NextMeta ==
    \/ Uncounted(Handles = {} /\ Allocate("none", LifeAlloc))
    \/ Uncounted(\E in \in MetaInputs, dib \in Handles : SetMetadata(in.model, dib, in.key, in.tag))
    \/ Uncounted(\E model \in MetaModels, dib \in Handles, key \in MetaKeys :
                GetMetadata(model, dib, key))
    \/ Uncounted(\E model \in MetaModels, dib \in Handles : GetMetadataCount(model, dib))
    \/ Uncounted(\E dib \in Handles : Unload(dib))

SpecMeta == Init /\ [][NextMeta]_vars

-----------------------------------------------------------------------------
(* Copying metadata between two handles.  The client allocates both bitmaps *)
(* and then fills and copies their metadata.                                *)

\* what the client stores in the bitmap it allocated first
FirstInputs ==
    { SetInput(FIMD_EXIF_MAIN, "a", ByteTag), SetInput(FIMD_IPTC, "a", ByteTag),
      SetInput(FIMD_ANIMATION, "a", ByteTag) }

\* what it stores in the other one
SecondInputs ==
    { SetInput(FIMD_EXIF_MAIN, "a", ShortTag), SetInput(FIMD_ANIMATION, "b", ShortTag) }

First == CHOOSE h \in Handles : \A g \in Handles : h <= g

CopyInputs(dib) == IF dib = First THEN FirstInputs ELSE SecondInputs

XResolution == 72

YResolution == 300

\* the client is done after this many copies
MaxCopies == 1

Filling == Cardinality(Handles) = MaxRoots /\ calls < MaxCopies

\* the client stores a tag where there is none yet
Fresh(in, dib) == FreeImage_GetMetadata(Heap, in.model, dib, in.key) = NULL

NextCopy ==
    \/ Uncounted(Cardinality(Handles) < MaxRoots /\ Allocate("none", LifeAlloc))
    \/ Uncounted(/\ Filling
                 /\ \E dib \in Handles : \E in \in CopyInputs(dib) :
                        Fresh(in, dib) /\ SetMetadata(in.model, dib, in.key, in.tag))
    \/ Uncounted(/\ Filling
                 /\ dibs[First].biXPelsPerMeter = DefaultResolution
                 /\ SetDotsPerMeterX(First, XResolution))
    \/ Uncounted(/\ Filling
                 /\ dibs[First].biYPelsPerMeter = DefaultResolution
                 /\ SetDotsPerMeterY(First, YResolution))
    \/ /\ Filling
       /\ \E dst \in Handles : \E src \in Handles \ {dst} : CloneMetadata(dst, src)
       /\ calls' = calls + 1

SpecCopy == Init /\ [][NextCopy]_vars

-----------------------------------------------------------------------------
(* Allocation.  The client asks for one bitmap, of any of the sizes, types  *)
(* and depths below, with any one of the allocations failing, and unloads   *)
(* what it got.                                                             *)

MaxAllocs == 1

AllocTypes == {"FIT_BITMAP", "FIT_RGBF", "FIT_UNKNOWN"}

AllocWidths == {-3, 0, 1, 5, 100000, 134217729, 2147483647}

AllocHeights == {-2, 0, 1, 100000}

AllocDepths == {1, 7, 8, 16, 24, 32}

AllocInputs ==
    [header_only : BOOLEAN, type : AllocTypes, width : AllocWidths, height : AllocHeights,
     bpp : AllocDepths, masks : {Rgb565}]

AllocFailures == {"none", "bitmap", "data", "metadata"}

ExtPitches == {0, 4, 6}

InitAlloc ==
    /\ dibs = <<>>
    /\ mdmaps = <<>>
    /\ tagmaps = <<>>
    /\ tags = <<>>
    /\ bufs = (CallerBuffer :> CallerBytes)
    /\ live = {CallerBuffer}
    /\ crashed = FALSE
    /\ uaf = FALSE
    /\ dfree = FALSE
    /\ sizeBits \in PlatformBits
    /\ calc = NoCalc
    /\ ret = NoRet
    /\ calls = 0

NextAlloc ==
    \/ Call(/\ calls < MaxAllocs
            /\ \E fail \in AllocFailures, in \in AllocInputs : Allocate(fail, in))
    \/ Call(/\ calls < MaxAllocs
            /\ \E fail \in AllocFailures, in \in AllocInputs, ext_pitch \in ExtPitches :
                   ~in.header_only /\ AllocateForBits(fail, in, CallerBuffer, ext_pitch))
    \/ Uncounted(\E dib \in Handles : Unload(dib))

SpecAlloc == InitAlloc /\ [][NextAlloc]_vars

-----------------------------------------------------------------------------
(* Palettes.  The client allocates small bitmaps of every depth, supported  *)
(* or not, clones them and unloads them.                                    *)

PaletteDepths == {0, 1, 2, 4, 7, 8, 16, 24, 32, 33}

PaletteInputs ==
    [header_only : BOOLEAN, type : {"FIT_BITMAP"}, width : {1, 3}, height : {1},
     bpp : PaletteDepths, masks : {Rgb565}]

NextPalette ==
    \/ Uncounted(Room /\ \E in \in PaletteInputs : Allocate("none", in))
    \/ Uncounted(/\ Room
                 /\ \E in \in PaletteInputs :
                        ~in.header_only /\ AllocateForBits("none", in, CallerBuffer, CallerPitch))
    \/ Uncounted(\E dib \in Roots : Room /\ Clone(dib))
    \/ Uncounted(\E dib \in Roots : Unload(dib))

SpecPalette == Init /\ [][NextPalette]_vars

-----------------------------------------------------------------------------
(* Colour specification: the client allocates one bitmap, writes its        *)
(* palette, its profile flags and the alpha bytes of its pixels, and asks   *)
(* for its colour type.                                                     *)

ColourDepths == {1, 4, 8, 24, 32}

ColourInputs ==
    [header_only : BOOLEAN, type : {"FIT_BITMAP"}, width : {2}, height : {2}, bpp : ColourDepths,
     masks : {Rgb565}]

\* two pixels of 32 bits in the caller-owned buffer: one row at pitch 8
WrappedInput ==
    [header_only |-> FALSE, type |-> "FIT_BITMAP", width |-> 2, height |-> 1, bpp |-> 32,
     masks |-> Rgb565]

WrappedPitch == 8

MonoColours == {Black, White, <<255, 255, 0>>, <<1, 1, 1>>}

Ramp(n) == [i \in 0..(n - 1) |-> <<i, i, i>>]

Reversed(n) == [i \in 0..(n - 1) |-> <<n - 1 - i, n - 1 - i, n - 1 - i>>]

\* the palettes the client writes into a bitmap of n colours
ClientPalettes(n) ==
    IF n = 2 THEN {(0 :> a) @@ (1 :> b) : a \in MonoColours, b \in MonoColours}
    ELSE {Ramp(n), Reversed(n),
          [Ramp(n) EXCEPT ![1] = <<n - 2, n - 2, n - 2>>],
          [Reversed(n) EXCEPT ![3] = <<3, 3, 3>>],
          [Ramp(n) EXCEPT ![n - 1] = <<7, 7, 7>>],
          [Ramp(n) EXCEPT ![2] = <<2, 2, 3>>],
          [Reversed(n) EXCEPT ![n - 1] = <<0, 1, 0>>],
          [i \in 0..(n - 1) |-> <<7, 7, 7>>]}

\* the offsets of the alpha bytes of the pixels, and of one blue byte
AlphaOffsets == {3, 7, 11, 15}

PokedOffsets == AlphaOffsets \cup {4}

NextColour ==
    \/ Uncounted(Handles = {} /\ \E in \in ColourInputs : Allocate("none", in))
    \/ Uncounted(Handles = {} /\ AllocateForBits("none", WrappedInput, CallerBuffer, WrappedPitch))
    \/ Uncounted(\E dib \in Handles : \E pal \in ClientPalettes(dibs[dib].biClrUsed) : WritePalette(dib, pal))
    \/ Uncounted(\E dib \in Handles, flags \in 0..3 : WriteICCFlags(dib, flags))
    \/ Uncounted(\E dib \in Handles, offset \in PokedOffsets, byte \in {0, 255} : dibs[dib].biBitCount = 32 /\ PokeBits(dib, offset, byte))
    \/ Uncounted(\E dib \in Handles, offset \in {3, 7} : dibs[dib].external_bits # NULL /\ PokeCaller(offset, 255))
    \/ Uncounted(\E dib \in Handles \cup {NULL}, scan_alpha \in BOOLEAN : GetColorType(dib, scan_alpha))
    \/ Uncounted(\E dib \in Handles : Unload(dib))

SpecColour == Init /\ [][NextColour]_vars

-----------------------------------------------------------------------------
(* Accessor specification: the client allocates bitmaps of several depths,  *)
(* with and without pixels, and calls the accessors on them and on the null *)
(* handle.                                                                  *)

AccessDepths == {8, 16}

AccessInputs ==
    [header_only : BOOLEAN, type : {"FIT_BITMAP", "FIT_RGBF"}, width : {3}, height : {2},
     bpp : AccessDepths, masks : {Rgb565}]

NextAccess ==
    \/ Uncounted(Room /\ \E in \in AccessInputs : Allocate("none", in))
    \/ Uncounted(Room /\ AllocateForBits("none", ExtAlloc, CallerBuffer, CallerPitch))
    \/ Uncounted(\E name \in Accessors, dib \in Handles \cup {NULL} : Access(name, dib))
    \/ Uncounted(\E dib \in Handles : Unload(dib))

SpecAccess == Init /\ [][NextAccess]_vars

-----------------------------------------------------------------------------
(* Iteration specification: the client fills the metadata of one bitmap,    *)
(* copies it to another, and walks the tags of a model of either with a     *)
(* cursor.  No tag is set, removed or copied while the cursor is open.      *)

IterInputs ==
    { SetInput(FIMD_EXIF_MAIN, "a", ByteTag), SetInput(FIMD_EXIF_MAIN, "b", ShortTag),
      SetInput(FIMD_EXIF_MAIN, "a", NoTag), SetInput(FIMD_IPTC, "b", ByteTag),
      SetInput(FIMD_IPTC, NoKey, NoTag) }

\* what a read past the end of a tag map may come back with
PastEnd == {NULL} \cup DOMAIN tags

NextIter ==
    \/ Uncounted(Room /\ Allocate("none", LifeAlloc))
    \/ Call(Cursors = {} /\ Handles # {} /\ \E in \in IterInputs : SetMetadata(in.model, First, in.key, in.tag))
    \/ Call(Cursors = {} /\ \E dst \in Handles : dst # First /\ CloneMetadata(dst, First))
    \/ Call(Cursors = {} /\ \E model \in MetaModels, dib \in Handles \cup {NULL}, past_end \in PastEnd : FindFirstMetadata(model, dib, past_end))
    \/ Call(\E mdhandle \in Cursors \cup {NULL} : FindNextMetadata(mdhandle))
    \/ Call(\E mdhandle \in Cursors : FindCloseMetadata(mdhandle))

SpecIter == Init /\ [][NextIter]_vars

-----------------------------------------------------------------------------
(* Wrapping specification: the client wraps its pixel buffer in bitmaps of  *)
(* several sizes and pitches, clones them and unloads them.                 *)

WrapInputs ==
    [header_only : {FALSE}, type : {"FIT_BITMAP"}, width : {1, 2}, height : {1, 2}, bpp : {8, 16},
     masks : {Rgb565}]

WrapPitches == {3, 4, 6}

NextWrap ==
    \/ Uncounted(Room /\ \E in \in WrapInputs, ext_pitch \in WrapPitches : AllocateForBits("none", in, CallerBuffer, ext_pitch))
    \/ Uncounted(\E dib \in Roots : Room /\ Clone(dib))
    \/ Uncounted(\E dib \in Roots : Unload(dib))

SpecWrap == Init /\ [][NextWrap]_vars

-----------------------------------------------------------------------------
(* Transparency specification: the client allocates one bitmap, sets its    *)
(* transparency table and its transparent index and asks for the index.     *)

TransparencyInputs ==
    [header_only : BOOLEAN, type : {"FIT_BITMAP"}, width : {1}, height : {1},
     bpp : {1, 4, 8, 24}, masks : {Rgb565}]

TableCounts == {0 - 1, 0, 2, 256, 300}

TableIndexes == {0 - 1, 0, 1, 2, 15, 16, 255, 256}

NextTransparency ==
    \/ Uncounted(Handles = {} /\ \E in \in TransparencyInputs : Allocate("none", in))
    \/ Uncounted(\E dib \in Handles \cup {NULL}, table \in {NULL, CallerBuffer}, count \in TableCounts : SetTransparencyTable(dib, table, count))
    \/ Uncounted(\E dib \in Handles \cup {NULL}, index \in TableIndexes : SetTransparentIndex(dib, index))
    \/ Uncounted(\E dib \in Handles : GetTransparentIndex(dib))
    \/ Uncounted(\E dib \in Handles : Unload(dib))

SpecTransparency == Init /\ [][NextTransparency]_vars

-----------------------------------------------------------------------------
(* Profile specification: the client allocates one bitmap, stores tags,     *)
(* among them tags with the key of the profile, sets the profile flags and  *)
(* creates and destroys the profile.                                        *)

ProfileInputs ==
    { SetInput(FIMD_EXIF_MAIN, ICCKey, ByteTag), SetInput(FIMD_EXIF_MAIN, "a", ByteTag),
      SetInput(FIMD_IPTC, ICCKey, ByteTag) }

\* the bytes the client passes and the size it gives for them
ProfileData == {<<1, 2>>, <<3>>}

NextProfile ==
    \/ Uncounted(Handles = {} /\ Allocate("none", LifeAlloc))
    \/ Uncounted(\E in \in ProfileInputs, dib \in Handles : SetMetadata(in.model, dib, in.key, in.tag))
    \/ Uncounted(\E dib \in Handles, flags \in 0..3 : WriteICCFlags(dib, flags))
    \/ Uncounted(\E dib \in Handles, data \in ProfileData, size \in {0, 1, 2} : size <= Len(data) /\ CreateICCProfile(dib, data, size))
    \/ Uncounted(\E dib \in Handles : DestroyICCProfile(dib))
    \/ Uncounted(\E dib \in Handles : Unload(dib))

SpecProfile == Init /\ [][NextProfile]_vars

-----------------------------------------------------------------------------
(* Self-copy specification: the client allocates one bitmap, stores and     *)
(* removes tags in three models and copies the metadata of the bitmap into  *)
(* the bitmap itself.                                                       *)

SelfInputs ==
    { SetInput(FIMD_EXIF_MAIN, "a", ByteTag), SetInput(FIMD_EXIF_MAIN, "b", ShortTag),
      SetInput(FIMD_EXIF_MAIN, "a", NoTag), SetInput(FIMD_IPTC, "a", ByteTag),
      SetInput(FIMD_ANIMATION, "a", ByteTag), SetInput(FIMD_ANIMATION, "b", ShortTag) }

NextSelfCopy ==
    \/ Uncounted(Handles = {} /\ Allocate("none", LifeAlloc))
    \/ Uncounted(\E in \in SelfInputs, dib \in Handles : SetMetadata(in.model, dib, in.key, in.tag))
    \/ Uncounted(\E dib \in Handles : CloneMetadata(dib, dib))

SpecSelfCopy == Init /\ [][NextSelfCopy]_vars

-----------------------------------------------------------------------------
(* Layout specification: the client allocates bitmaps of several types,     *)
(* depths and sizes, with pixels, without, and over its own buffer, on a    *)
(* platform of either word size, clones them and unloads them.              *)

LayoutInputs ==
    [header_only : BOOLEAN, type : {"FIT_BITMAP", "FIT_RGBF"}, width : {1, 5, 134217729},
     height : {1, 2}, bpp : {1, 8, 16, 24, 32}, masks : {Rgb565}]

NextLayout ==
    \/ Uncounted(Handles = {} /\ \E in \in LayoutInputs : Allocate("none", in))
    \/ Uncounted(Handles = {} /\ \E in \in LayoutInputs : ~in.header_only /\ in.width < 100 /\ AllocateForBits("none", in, CallerBuffer, CallerPitch))
    \/ Uncounted(\E dib \in Roots : Room /\ Clone(dib))
    \/ Uncounted(\E dib \in Roots : Unload(dib))

SpecLayout == InitAlloc /\ [][NextLayout]_vars

-----------------------------------------------------------------------------
(* What a client can observe of a handle.                                   *)

Now == Stores(dibs, mdmaps, tagmaps, tags, bufs)

AllModels == {FIMD_EXIF_MAIN, FIMD_IPTC, FIMD_ANIMATION}

AllKeys == {"a", "b", ICCKey}

\* model -> key -> tag fields, for the models and keys the handle stores
MetaView(st, dib) ==
    LET mm == st.mdmaps[st.dibs[dib].metadata]
    IN  [m \in DOMAIN mm |->
            [k \in DOMAIN st.tagmaps[mm[m]] |-> st.tags[st.tagmaps[mm[m]][k]]]]

\* the keys FreeImage_GetMetadata finds in a model
KeysFound(hp, model, dib) ==
    {k \in AllKeys : FreeImage_GetMetadata(hp, model, dib, k) # NULL}

SameTag(t, key, tag) ==
    /\ t.key = key
    /\ t.type = tag.type
    /\ t.count = tag.count
    /\ t.value = tag.value

\* the pixel bytes of each row, read where the handle keeps them
PixelRows(st, d) ==
    LET src == IF d.external_bits # NULL THEN st.bufs[d.external_bits] ELSE d.bits
        pitch == ToNat(FreeImage_GetPitch(d))
    IN  IF ~d.has_pixels THEN <<>>
        ELSE [y \in 0..(Abs(d.biHeight) - 1) |->
                [x \in 0..(ToNat(FreeImage_GetLine(d)) - 1) |->
                    IF (y * pitch + x) \in DOMAIN src THEN src[y * pitch + x] ELSE 0]]

ICCView(st, d) ==
    [flags |-> d.iccProfile.flags,
     size |-> d.iccProfile.size,
     bytes |-> IF d.iccProfile.data # NULL THEN st.bufs[d.iccProfile.data] ELSE <<>>]

RECURSIVE DibView(_, _)

\* what a client can observe of a handle, addresses left out
DibView(st, dib) ==
    IF dib = NULL THEN [none |-> TRUE]
    ELSE LET d == st.dibs[dib]
         IN  [type |-> d.type, width |-> d.biWidth, height |-> d.biHeight,
              bpp |-> d.biBitCount, has_pixels |-> d.has_pixels,
              palette |-> d.palette, masks |-> FreeImage_GetMasks(d),
              rows |-> PixelRows(st, d),
              resolution |-> <<d.biXPelsPerMeter, d.biYPelsPerMeter>>,
              icc |-> ICCView(st, d),
              metadata |-> MetaView(st, dib),
              thumbnail |-> DibView(st, d.thumbnail)]

\* the tag objects of the handle's models
TagsOf(st, d) ==
    UNION { Range(st.tagmaps[a]) : a \in Range(st.mdmaps[d.metadata]) }

\* the addresses a handle holds itself: wrapper, block, ICC bytes, metadata map, models, tags
OwnedDirect(st, dib) ==
    LET d == st.dibs[dib]
    IN  ({dib, d.data, d.metadata, d.iccProfile.data} \ {NULL})
          \cup Range(st.mdmaps[d.metadata]) \cup TagsOf(st, d)

RECURSIVE Owned(_, _)

\* the addresses a handle holds, its thumbnail's included
Owned(st, dib) ==
    IF dib = NULL THEN {}
    ELSE OwnedDirect(st, dib) \cup Owned(st, st.dibs[dib].thumbnail)

\* the objects stored at the addresses in S
Objects(st, S) ==
    [dibs |-> [a \in DOMAIN st.dibs \cap S |-> st.dibs[a]],
     mdmaps |-> [a \in DOMAIN st.mdmaps \cap S |-> st.mdmaps[a]],
     tagmaps |-> [a \in DOMAIN st.tagmaps \cap S |-> st.tagmaps[a]],
     tags |-> [a \in DOMAIN st.tags \cap S |-> st.tags[a]],
     bufs |-> [a \in DOMAIN st.bufs \cap S |-> st.bufs[a]]]

\* the handle at the top of the thumbnail chain that holds dib
RootOf(dib) ==
    CHOOSE r \in Roots : dib \in Owned(Now, r)

-----------------------------------------------------------------------------
(* Claims.                                                                  *)

\* C1: a SetTag call with a present key and a tag whose count * element width differs
\* from its byte length returns failure and leaves the handle's metadata map exactly as
\* it was: no model entry created, no tag added, replaced or removed.
C1_InvalidTagLeavesMapUnchanged ==
    [][ret'.op = "SetMetadata" /\ ret'.key # NoKey /\ ret'.tag # NoTag /\ BadCount(ret'.tag)
         => /\ ret'.res = FALSE
            /\ MetaView(Now', ret'.dib) = MetaView(Now, ret'.dib)]_vars

\* a rejected tag has been offered to a handle, which now holds a model with no tag in it
C1_RejectedTagCreatedModel ==
    /\ ret.op = "SetMetadata"
    /\ ret.tag = BadTag
    /\ ret.res = FALSE
    /\ ret.model \in DOMAIN MetaView(Now, ret.dib)
    /\ MetaView(Now, ret.dib)[ret.model] = <<>>

\* C2: after a successful SetTag(model, key, tag), GetTag(model, key) finds a tag equal
\* to the supplied one in key, type, count and payload; after SetTag(model, key, none)
\* it finds none; Count(model) is the number of distinct keys stored in the model,
\* replacing the tag of a stored key leaves it unchanged, and it is 0 for a model that
\* does not exist.
C2_SetGetCount ==
    [][ret'.op = "SetMetadata"
         => /\ (ret'.key # NoKey /\ ret'.tag # NoTag /\ ret'.res = TRUE)
                 => LET t == FreeImage_GetMetadata(Heap', ret'.model, ret'.dib, ret'.key)
                    IN  t # NULL /\ SameTag(tags'[t], ret'.key, ret'.tag)
            /\ (ret'.key # NoKey /\ ret'.tag = NoTag)
                 => FreeImage_GetMetadata(Heap', ret'.model, ret'.dib, ret'.key) = NULL
            /\ \A model \in AllModels :
                 /\ FreeImage_GetMetadataCount(Heap', model, ret'.dib)
                      = Cardinality(KeysFound(Heap', model, ret'.dib))
                 /\ model \notin DOMAIN MetaView(Now', ret'.dib)
                      => FreeImage_GetMetadataCount(Heap', model, ret'.dib) = 0
            /\ (ret'.key \in KeysFound(Heap, ret'.model, ret'.dib) /\ ret'.tag # NoTag
                  /\ ret'.res = TRUE)
                 => FreeImage_GetMetadataCount(Heap', ret'.model, ret'.dib)
                      = FreeImage_GetMetadataCount(Heap, ret'.model, ret'.dib)]_vars

\* the tag of key "a" has just been set to the SHORT tag in a model that also stores "b"
C2_TagStoredBesideAnother ==
    /\ ret.op = "SetMetadata"
    /\ ret.res = TRUE
    /\ ret.key = "a"
    /\ ret.tag = ShortTag
    /\ FreeImage_GetMetadataCount(Heap, ret.model, ret.dib) = 2
    /\ SameTag(tags[FreeImage_GetMetadata(Heap, ret.model, ret.dib, "a")], "a", ShortTag)
    /\ SameTag(tags[FreeImage_GetMetadata(Heap, ret.model, ret.dib, "b")], "b", ByteTag)

\* the size the calculator would return in unbounded integer arithmetic
ExactSize ==
    BAdd(Num(HeaderPart(sizeBits, calc.bpp, calc.need_masks)),
         BMul(Shl(Shr(BAdd(BMul(calc.width, Num(calc.bpp)), Num(31)), 5), 2), calc.height))

\* C9: with headerOnly false, ComputeBlockSize returns 0 or exactly
\* headerPart + pitch * height with pitch = ((width * bpp + 31) / 32) * 4 in exact
\* arithmetic, and a non-zero result never exceeds the largest size minus 8 * alignment.
C9_ExactOrZero ==
    (calc.phase = "out" /\ ~calc.header_only)
        => \/ calc.size = Num(0)
           \/ /\ calc.size = ExactSize
              /\ ~BLt(BSub(AllOnes(sizeBits), Num(8 * FIBITMAP_ALIGNMENT)), calc.size)

\* 100000 x 100000 at 32 bits per pixel on a 32-bit size type came back as 0
C9_HugeImageRejected ==
    /\ calc.phase = "out"
    /\ ~calc.header_only
    /\ sizeBits = 32
    /\ calc.width = Num(100000)
    /\ calc.height = Num(100000)
    /\ calc.bpp = 32
    /\ calc.size = Num(0)

\* the heap objects outside the set S are the ones they were
FrameOutside(S) ==
    Objects(Now', live \ S) = Objects(Now, live \ S)

\* every handle under another root is what it was, and holds what it held
OtherRootsKept(dib) ==
    \A y \in Roots \ {RootOf(dib)} :
        /\ y \in Roots'
        /\ DibView(Now', y) = DibView(Now, y)
        /\ Owned(Now', y) = Owned(Now, y)

\* C3: Clone(src) on a live handle returns a handle with the type, width, height, bit
\* depth, palette, masks, pixel bytes, tags, ICC profile and thumbnail contents of src,
\* none of whose block, ICC bytes, metadata map, tag maps, tags and thumbnail is an
\* object src holds; Clone leaves src as it was; and a later SetMetadata, SetThumbnail,
\* CloneMetadata, CreateICCProfile or Unload on one handle leaves every handle under
\* another root, the clone's source or the source's clone among them, unchanged.
C3_CloneIndependent ==
    [][~crashed'
         => /\ (ret'.op = "Clone" /\ ret'.res # NULL)
                 => /\ ret'.res \notin live
                    /\ DibView(Now', ret'.res) = DibView(Now, ret'.src)
                    /\ Owned(Now', ret'.res) \cap live = {}
                    /\ Owned(Now', ret'.res) \cap Owned(Now', ret'.src) = {}
                    /\ dibs'[ret'.res].external_bits = NULL
                    /\ DibView(Now', ret'.src) = DibView(Now, ret'.src)
                    /\ FrameOutside({})
            /\ (ret'.op \in {"SetMetadata", "SetThumbnail", "CloneMetadata",
                             "CreateICCProfile", "Unload"}
                  /\ ret'.dib \in Handles)
                 => OtherRootsKept(ret'.dib)]_vars

\* a handle over a caller's buffer that has a tag, an ICC profile and a thumbnail has
\* been cloned
C3_RichHandleCloned ==
    /\ ret.op = "Clone"
    /\ ret.res \in Handles
    /\ ret.src \in Handles
    /\ dibs[ret.src].external_bits = CallerBuffer
    /\ dibs[ret.src].iccProfile.data # NULL
    /\ dibs[ret.src].thumbnail # NULL
    /\ TagsOf(Now, dibs[ret.src]) # {}
    /\ dibs[ret.res].thumbnail # NULL
    /\ dibs[ret.res].bits # <<>>

\* C4: every SetThumbnail(handle, source) on a live handle, the ones that read a freed
\* handle aside, unloads the thumbnail the handle had; leaves the handle without a
\* thumbnail when source is none or has no pixels; and otherwise leaves it with a
\* thumbnail that is a deep clone of source, built from new objects only, and that is
\* neither source nor the handle.
C4_ThumbnailIsDeepClone ==
    [][(ret'.op = "SetThumbnail" /\ ret'.dib \in Handles /\ ~crashed' /\ ~uaf')
         => /\ ret'.res = TRUE
            /\ dibs[ret'.dib].thumbnail # NULL
                 => Owned(Now, dibs[ret'.dib].thumbnail) \subseteq ret'.freed
            /\ (ret'.src = NULL \/ ~FreeImage_HasPixels(Heap, ret'.src))
                 => dibs'[ret'.dib].thumbnail = NULL
            /\ (ret'.src # NULL /\ FreeImage_HasPixels(Heap, ret'.src))
                 => /\ dibs'[ret'.dib].thumbnail \in Handles' \ {ret'.src, ret'.dib}
                    /\ DibView(Now', dibs'[ret'.dib].thumbnail) = DibView(Now, ret'.src)
                    /\ Owned(Now', dibs'[ret'.dib].thumbnail) \cap (live \ ret'.freed) = {}]_vars

\* SetThumbnail was given the thumbnail the handle already holds, released nothing and
\* left that very handle in place
C4_OwnThumbnailKept ==
    /\ ret.op = "SetThumbnail"
    /\ ret.dib \in Handles
    /\ ret.src # NULL
    /\ dibs[ret.dib].thumbnail = ret.src
    /\ ret.freed = {}
    /\ Running

\* C5: Unload(handle) on a live root handle releases, once each, the ICC bytes, every
\* tag, every tag map, the model map, the thumbnail subtree, the block and the wrapper
\* of the handle and nothing else, a caller's pixel buffer in particular; nothing the
\* handle held stays allocated and every other object is untouched.  Unload(none)
\* changes nothing.
C5_UnloadReleasesOwned ==
    [][ret'.op = "Unload"
         => IF ret'.dib = NULL
            THEN UNCHANGED heapvars /\ ret'.freed = {}
            ELSE /\ ~dfree' /\ ~uaf' /\ ~crashed'
                 /\ ret'.freed = Owned(Now, ret'.dib)
                 /\ live' = live \ Owned(Now, ret'.dib)
                 /\ CallerBuffer \in live'
                 /\ FrameOutside(Owned(Now, ret'.dib))]_vars

\* a handle over a caller's buffer that held a tag, ICC bytes and a thumbnail has been
\* unloaded, and the caller's buffer is still there
C5_RichHandleUnloaded ==
    /\ ret.op = "Unload"
    /\ ret.src = CallerBuffer
    /\ Cardinality(ret.freed) >= 9
    /\ CallerBuffer \in live
    /\ bufs[CallerBuffer] = CallerBytes

RECURSIVE Below(_, _)

\* the handles at most n thumbnail links below h
Below(h, n) ==
    IF n = 0 \/ h \notin Handles \/ dibs[h].thumbnail = NULL THEN {}
    ELSE {dibs[h].thumbnail} \cup Below(dibs[h].thumbnail, n - 1)

Forest ==
    /\ \A h \in Handles : dibs[h].thumbnail \in Handles \cup {NULL}
    /\ \A t \in Thumbnails : Cardinality({h \in Handles : dibs[h].thumbnail = t}) = 1
    /\ \A h \in Handles : h \notin Below(h, MaxObj)
    /\ \A h \in Handles : OwnedDirect(Now, h) \subseteq live
    /\ \A h \in Handles :
         \A g \in Handles \ {h} : OwnedDirect(Now, h) \cap OwnedDirect(Now, g) = {}
    /\ \A h \in Handles :
         LET maps == Range(mdmaps[dibs[h].metadata])
         IN  \A a \in maps : \A b \in maps \ {a} : Range(tagmaps[a]) \cap Range(tagmaps[b]) = {}
    /\ \A r \in Roots : Cardinality(Owned(Now, r)) = Cardinality(OwnedDirect(Now, r))
                          + Cardinality(Owned(Now, dibs[r].thumbnail))

\* C7: while the process runs, ownership is a forest: a thumbnail pointer names a live
\* handle, a thumbnail handle has exactly one parent, no handle is below itself in its
\* thumbnail chain, and no block, ICC buffer, metadata map, tag map or tag is held by
\* two handles; so the walk down a thumbnail chain ends.
C7_OwnershipForest ==
    ~crashed => Forest

\* a thumbnail that has a thumbnail of its own, beside another root handle
C7_NestedThumbnails ==
    /\ ~crashed
    /\ \E h \in Roots : Cardinality(Below(h, MaxObj)) >= 2
    /\ Cardinality(Roots) >= 2

\* the tag map of a model of a handle and the tags in it
ModelObjects(st, dib, model) ==
    LET mm == st.mdmaps[st.dibs[dib].metadata]
    IN  IF model \in DOMAIN mm THEN {mm[model]} \cup Range(st.tagmaps[mm[model]]) ELSE {}

Resolution(st, dib) ==
    <<st.dibs[dib].biXPelsPerMeter, st.dibs[dib].biYPelsPerMeter>>

\* the models CloneMetadata copies out of src
Copied(src) ==
    DOMAIN MetaView(Now, src) \ {FIMD_ANIMATION}

\* C6: CloneMetadata(dst, src) on two distinct live handles succeeds; every model of src
\* other than the animation model ends up in dst with the tags of src's model, held in
\* new tag objects, and the tags dst had in that model are released; the animation model
\* of dst and every model of dst that src lacks are left as they were; dst takes the
\* resolution of src; and src is left as it was.
C6_CloneMetadataCopies ==
    [][(ret'.op = "CloneMetadata" /\ ret'.dib \in Handles /\ ret'.src \in Handles
          /\ ret'.dib # ret'.src)
         => /\ ret'.res = TRUE
            /\ ~crashed' /\ ~uaf' /\ ~dfree'
            /\ DOMAIN MetaView(Now', ret'.dib)
                 = DOMAIN MetaView(Now, ret'.dib) \cup Copied(ret'.src)
            /\ \A m \in Copied(ret'.src) :
                 /\ MetaView(Now', ret'.dib)[m] = MetaView(Now, ret'.src)[m]
                 /\ ModelObjects(Now', ret'.dib, m) \cap (live \ ret'.freed) = {}
                 /\ ModelObjects(Now, ret'.dib, m) \subseteq ret'.freed
            /\ \A m \in DOMAIN MetaView(Now, ret'.dib) \ Copied(ret'.src) :
                 /\ MetaView(Now', ret'.dib)[m] = MetaView(Now, ret'.dib)[m]
                 /\ ModelObjects(Now', ret'.dib, m) = ModelObjects(Now, ret'.dib, m)
            /\ ret'.freed = UNION { ModelObjects(Now, ret'.dib, m) : m \in Copied(ret'.src) }
            /\ Resolution(Now', ret'.dib) = Resolution(Now, ret'.src)
            /\ DibView(Now', ret'.src) = DibView(Now, ret'.src)
            /\ FrameOutside(Owned(Now, ret'.dib))]_vars

\* metadata of two models was copied into a handle that had a tag of its own in one of
\* them and an animation model unlike the one of the source
C6_ModelReplacedAnimationSkipped ==
    /\ ret.op = "CloneMetadata"
    /\ ret.res = TRUE
    /\ ret.freed # {}
    /\ AllModels \subseteq DOMAIN MetaView(Now, ret.dib)
    /\ AllModels \subseteq DOMAIN MetaView(Now, ret.src)
    /\ MetaView(Now, ret.dib)[FIMD_EXIF_MAIN] = MetaView(Now, ret.src)[FIMD_EXIF_MAIN]
    /\ DOMAIN MetaView(Now, ret.dib)[FIMD_EXIF_MAIN] = {"a"}
    /\ DOMAIN MetaView(Now, ret.src)[FIMD_ANIMATION] = {"a"}
    /\ DOMAIN MetaView(Now, ret.dib)[FIMD_ANIMATION] = {"b"}
    /\ Resolution(Now, ret.dib) = <<XResolution, YResolution>>

\* the request of the last call cannot be granted
MustFail(r) ==
    \/ ~(Abs(r.tag.width) > 0)
    \/ ~(Abs(r.tag.height) > 0)
    \/ r.op = "AllocateForBits" /\ r.src # NULL /\ r.model = 0
    \/ r.tag.type # "FIT_BITMAP" /\ r.tag.type \notin DOMAIN TypeBits
    \/ FreeImage_GetInternalImageSize(
           sizeBits, r.tag.header_only \/ (r.op = "AllocateForBits" /\ r.src # NULL),
           Num(Abs(r.tag.width)), Num(Abs(r.tag.height)), CoerceBpp(r.tag.type, r.tag.bpp),
           r.tag.type = "FIT_BITMAP" /\ r.tag.bpp = 16) = Num(0)
    \/ r.key # "none"

\* C8: Allocate returns no handle when |width| or |height| is not greater than 0, when a
\* caller's buffer comes with pitch 0, when the type is not a supported one, when the
\* size calculator returns 0, or when the allocation of the wrapper, of the block or of
\* the metadata map returns nothing; and whenever it returns no handle, everything that
\* was allocated before the call is as it was and nothing else is allocated.
C8_FailedAllocateLeavesNothing ==
    [][ret'.op \in {"Allocate", "AllocateForBits"}
         => /\ MustFail(ret') => ret'.res = NULL
            /\ ret'.res = NULL
                 => /\ live' = live
                    /\ FrameOutside({})
                    /\ Handles' = Handles
            /\ ret'.res # NULL => ret'.res \in Handles' \ Handles]_vars

\* the metadata map could not be allocated, after the wrapper and the block had been
C8_MetadataMapRefused ==
    /\ ret.op \in {"Allocate", "AllocateForBits"}
    /\ ret.key = "metadata"
    /\ ret.tag.width = 5
    /\ ret.tag.height = 1
    /\ ret.tag.type = "FIT_BITMAP"
    /\ ret.res = NULL
    /\ live = {CallerBuffer}

Mod4(a) == a[1] % 4

\* C10: a FIT_BITMAP handle without a caller's buffer has a pitch that is not less than
\* its line and is a multiple of 4; a handle over a caller's buffer has the pitch the
\* caller gave.
C10_PitchAlignedOrVerbatim ==
    /\ \A h \in Handles :
         (dibs[h].type = "FIT_BITMAP" /\ dibs[h].external_bits = NULL)
           => /\ ~BLt(FreeImage_GetPitch(dibs[h]), FreeImage_GetLine(dibs[h]))
              /\ Mod4(FreeImage_GetPitch(dibs[h])) = 0
    /\ (ret.op = "AllocateForBits" /\ ret.res \in Handles)
         => FreeImage_GetPitch(dibs[ret.res]) = Num(ret.model)

\* a bitmap of 5 pixels of 24 bits, whose line of 15 bytes is not a multiple of 4
C10_OddLine ==
    \E h \in Handles :
        /\ dibs[h].type = "FIT_BITMAP"
        /\ dibs[h].external_bits = NULL
        /\ dibs[h].biWidth = 5
        /\ dibs[h].biBitCount = 24
        /\ Mod4(FreeImage_GetLine(dibs[h])) # 0

\* ceil(width * bpp / 8) on the exact product
ExactLine(d) ==
    Shr(BAdd(BMul(Num(d.biWidth), Num(d.biBitCount)), Num(7)), 3)

\* the stride the size calculator gives the rows: ((width * bpp + 31) / 32) * 4
ExactPitch(d) ==
    Shl(Shr(BAdd(BMul(Num(d.biWidth), Num(d.biBitCount)), Num(31)), 5), 2)

\* C11: for every handle an allocation returned, FreeImage_GetLine is ceil(width * bpp / 8)
\* on the exact product width * bpp, and for a handle that owns its pixels
\* FreeImage_GetPitch is the stride ((width * bpp + 31) / 32) * 4 the size calculator
\* used for the pixel region.
C11_LineAndPitchExact ==
    \A h \in Handles :
        /\ FreeImage_GetLine(dibs[h]) = ExactLine(dibs[h])
        /\ (dibs[h].has_pixels /\ dibs[h].external_bits = NULL)
             => FreeImage_GetPitch(dibs[h]) = ExactPitch(dibs[h])

\* a bitmap of 2^27 + 1 pixels of 32 bits owns rows of 536870916 bytes, and its line
\* comes back as 4
C11_LineWrapped ==
    \E h \in Handles :
        /\ dibs[h].has_pixels
        /\ dibs[h].external_bits = NULL
        /\ dibs[h].biWidth = 134217729
        /\ dibs[h].biBitCount = 32
        /\ dibs[h].biHeight = 1
        /\ dibs[h].dib_size = BAdd(Num(HeaderPart(sizeBits, 32, FALSE)), Num(536870916))
        /\ FreeImage_GetLine(dibs[h]) = Num(4)
        /\ FreeImage_GetPitch(dibs[h]) = Num(4)

\* the palette of 256 greys
GreyPalette == [i \in 0..255 |-> <<i, i, i>>]

\* C12: a successful allocation of a FIT_BITMAP with bpp 8, or with a bpp that is none of
\* 1, 2, 4, 8, 16, 24 and 32, yields a bitmap of depth 8 whose palette has entry
\* i = (i, i, i) for every i in 0..255; and a clone of a bitmap of depth 8 whose palette
\* was not written has the palette of its source.
C12_GreyPalette ==
    [][/\ (ret'.op \in {"Allocate", "AllocateForBits"} /\ ret'.res # NULL
             /\ ret'.tag.type = "FIT_BITMAP" /\ ret'.tag.bpp \notin {1, 2, 4, 16, 24, 32})
          => /\ dibs'[ret'.res].biBitCount = 8
             /\ dibs'[ret'.res].biClrUsed = 256
             /\ dibs'[ret'.res].palette = GreyPalette
       /\ (ret'.op = "Clone" /\ ret'.res # NULL /\ dibs[ret'.src].biBitCount = 8)
          => /\ dibs'[ret'.res].biBitCount = 8
             /\ dibs'[ret'.res].palette = dibs[ret'.src].palette
             /\ dibs'[ret'.res].palette = GreyPalette]_vars

\* a bitmap of depth 8 has been cloned, and the clone has the greys
C12_GreyBitmapCloned ==
    /\ ret.op = "Clone"
    /\ ret.res \in Handles
    /\ ret.src \in Handles
    /\ dibs[ret.src].biBitCount = 8
    /\ dibs[ret.res].palette[255] = <<255, 255, 255>>
    /\ dibs[ret.res].palette[1] = <<1, 1, 1>>


-----------------------------------------------------------------------------
\* the colour type asked of a live generic bitmap of the given depths
Classified(depths) ==
    /\ ret'.op = "GetColorType"
    /\ ret'.dib \in Handles
    /\ dibs[ret'.dib].type = "FIT_BITMAP"
    /\ dibs[ret'.dib].biBitCount \in depths

\* C13: the colour type of a 1-bit generic bitmap is min-is-black exactly when
\* its palette is (black, white), min-is-white exactly when it is (white, black)
\* and palette-indexed for every other pair; only entries 0 and 1 are read.
C13_MonoByFirstTwoEntries ==
    [][Classified({1}) =>
          LET pal == dibs[ret'.dib].palette
          IN  /\ (ret'.res = "FIC_MINISBLACK") <=> (pal[0] = Black /\ pal[1] = White)
              /\ (ret'.res = "FIC_MINISWHITE") <=> (pal[0] = White /\ pal[1] = Black)
              /\ (ret'.res = "FIC_PALETTE") <=>
                     ~(pal[0] = Black /\ pal[1] = White) /\ ~(pal[0] = White /\ pal[1] = Black)
              /\ ret'.res \in {"FIC_MINISBLACK", "FIC_MINISWHITE", "FIC_PALETTE"}
              /\ ret'.tag.reads \subseteq {0, 1}]_vars

\* a 1-bit bitmap whose palette is (white, black) was classified min-is-white
C13_WhiteFirstClassified ==
    /\ ret.op = "GetColorType"
    /\ ret.dib \in Handles
    /\ dibs[ret.dib].type = "FIT_BITMAP"
    /\ dibs[ret.dib].biBitCount = 1
    /\ dibs[ret.dib].palette = (0 :> White) @@ (1 :> Black)
    /\ ret.res = "FIC_MINISWHITE"
    /\ ret.tag.reads = {0, 1}

-----------------------------------------------------------------------------
\* entry i of the palette is grey
Grey(pal, i) ==
    pal[i][1] = pal[i][2] /\ pal[i][1] = pal[i][3]

\* the colour type a palette of count used entries is said to have
GreyClass(pal, count) ==
    IF \E i \in 0..(count - 1) : ~Grey(pal, i) THEN "FIC_PALETTE"
    ELSE IF \A i \in 0..(count - 1) : pal[i][1] = i THEN "FIC_MINISBLACK"
    ELSE IF \A i \in 0..(count - 1) : pal[i][1] = count - 1 - i THEN "FIC_MINISWHITE"
    ELSE "FIC_PALETTE"

\* C14: the colour type of a 4- or 8-bit generic bitmap is palette-indexed if a
\* used palette entry is not grey; otherwise min-is-black exactly when every
\* entry i is i, min-is-white exactly when every entry i is count-1-i, and
\* palette-indexed for any other grey pattern.
C14_GreyRampOrPalette ==
    [][Classified({4, 8}) =>
          ret'.res = GreyClass(dibs[ret'.dib].palette, dibs[ret'.dib].biClrUsed)]_vars

\* a 4-bit bitmap whose grey palette is the rising ramp except for entry 1,
\* which holds 14, was classified min-is-white
C14_MixedRampClassifiedWhite ==
    /\ ret.op = "GetColorType"
    /\ ret.dib \in Handles
    /\ dibs[ret.dib].type = "FIT_BITMAP"
    /\ dibs[ret.dib].biBitCount = 4
    /\ dibs[ret.dib].palette = [Ramp(16) EXCEPT ![1] = <<14, 14, 14>>]
    /\ ret.res = "FIC_MINISWHITE"

-----------------------------------------------------------------------------
\* the alpha bytes of the width x height pixels of a bitmap of 32 bits
Alphas(st, d) ==
    {PixelRows(st, d)[y][4 * x + 3] : y \in 0..(d.biHeight - 1), x \in 0..(d.biWidth - 1)}

\* C15: the colour type of a 32-bit generic bitmap is CMYK if the profile
\* flags carry the CMYK bit, else YUV if they carry the YUV bit; else, when
\* scanAlpha is asked for and the handle has pixels, RGB-with-alpha if a pixel
\* has alpha other than 0xFF and RGB if every pixel has alpha 0xFF; and
\* RGB-with-alpha when scanAlpha is not asked for or the handle has no pixels.
C15_DeepColourByFlagsThenAlpha ==
    [][Classified({32}) =>
          LET d == dibs[ret'.dib]
              flags == d.iccProfile.flags
          IN  ret'.res =
                  IF flags \in {1, 3} THEN "FIC_CMYK"
                  ELSE IF flags = 2 THEN "FIC_YUV"
                  ELSE IF ret'.model = 1 /\ d.has_pixels
                  THEN IF \E a \in Alphas(Now, d) : a # 255 THEN "FIC_RGBALPHA" ELSE "FIC_RGB"
                  ELSE "FIC_RGBALPHA"]_vars

\* a 2 x 2 bitmap of 32 bits with every alpha byte 0xFF and another byte left
\* 0 was scanned and classified RGB
C15_OpaqueScanned ==
    /\ ret.op = "GetColorType"
    /\ ret.dib \in Handles
    /\ ret.model = 1
    /\ dibs[ret.dib].biBitCount = 32
    /\ dibs[ret.dib].has_pixels
    /\ dibs[ret.dib].external_bits = NULL
    /\ dibs[ret.dib].iccProfile.flags = 0
    /\ Alphas(Now, dibs[ret.dib]) = {255}
    /\ PixelRows(Now, dibs[ret.dib])[1][0] = 0
    /\ ret.res = "FIC_RGB"

-----------------------------------------------------------------------------
\* the value an accessor returns for nothing: 0, FALSE or the null pointer
NullValue(name) ==
    IF name \in {"Palette", "InfoBlock", "PixelPointer"} THEN NullPointer
    ELSE IF name \in {"HasPixels", "HasChannelMasks"} THEN FALSE
    ELSE 0

\* C16: every accessor called with the null handle returns its null or zero
\* value and does not read through the handle: the call ends, with no fault
\* and nothing changed.
C16_NullHandleYieldsNullValue ==
    [][(ret'.op = "Access" /\ ret'.dib = NULL) =>
          /\ ret'.res = NullValue(ret'.key)
          /\ ~crashed' /\ ~uaf'
          /\ Heap' = Heap]_vars

\* the info block asked of the null handle, while a handle is live whose info
\* block is not null
C16_InfoBlockOfNull ==
    /\ ret.op = "Access"
    /\ ret.dib = NULL
    /\ ret.key = "InfoBlock"
    /\ ret.res = NullPointer
    /\ \E h \in Handles : FreeImage_GetInfoHeader(Now, sizeBits, h) # NullPointer

-----------------------------------------------------------------------------
\* the tags the model of the handle stores now; none when the model does not exist
StoredTags(st, dib, model) ==
    LET mm == st.mdmaps[st.dibs[dib].metadata]
    IN  IF model \in DOMAIN mm THEN Range(st.tagmaps[mm[model]]) ELSE {}

\* the tags of the sequence are distinct
Distinct(seq) ==
    \A i, j \in DOMAIN seq : i # j => seq[i] # seq[j]

\* C17: while no tag is set, removed or copied under an open cursor, every tag
\* FindFirstMetadata or a successful FindNextMetadata hands out is stored in
\* the model; a cursor advanced to its end has handed out each tag of the model
\* exactly once, as many as GetMetadataCount counts; and FindFirstMetadata
\* gives no cursor for a model that does not exist.
C17_CursorWalksModel ==
    [][/\ (ret'.op = "FindFirstMetadata" /\ ret'.res # NULL) =>
              ret'.src \in StoredTags(Now, ret'.dib, ret'.model)
       /\ (ret'.op = "FindNextMetadata" /\ ret'.key = "more") =>
              ret'.src \in StoredTags(Now, ret'.dib, ret'.model)
       /\ (ret'.op = "FindNextMetadata" /\ ret'.key = "end" /\ ret'.res # NULL) =>
              /\ Distinct(ret'.tag)
              /\ Range(ret'.tag) = StoredTags(Now, ret'.dib, ret'.model)
              /\ Len(ret'.tag) = FreeImage_GetMetadataCount(Heap, ret'.model, ret'.dib)
       /\ (ret'.op = "FindFirstMetadata" /\ ret'.dib \in Handles
             /\ ret'.model \notin DOMAIN mdmaps[dibs[ret'.dib].metadata]) =>
              ret'.res = NULL]_vars

\* FindFirstMetadata gave a cursor and a tag for a model whose last tag had
\* been removed
C17_CursorOverEmptyModel ==
    /\ ret.op = "FindFirstMetadata"
    /\ ret.res # NULL
    /\ ret.dib \in Handles
    /\ StoredTags(Now, ret.dib, ret.model) = {}
    /\ FreeImage_GetMetadataCount(Heap, ret.model, ret.dib) = 0
    /\ Len(ret.tag) = 1
    /\ uaf

-----------------------------------------------------------------------------
\* the byte at offset o of the bytes, 0 where none was written
ByteAt(bytes, o) ==
    IF o \in DOMAIN bytes THEN bytes[o] ELSE 0

\* C18: the clone of a handle that wraps a caller's pixel buffer does not
\* refer to the buffer (no external pointer, external pitch 0, so that its
\* pitch is the 4-byte-aligned one), has pixels, and owns a pixel region whose
\* row y holds the first GetLine bytes of row y of the source, read at the
\* external pitch; the buffer and the source handle are left as they were, and
\* unloading the clone leaves the buffer alone.
C18_CloneOfWrappedOwnsCopy ==
    [][/\ (ret'.op = "Clone" /\ ret'.res # NULL /\ ret'.src \in Handles
             /\ dibs[ret'.src].external_bits # NULL) =>
              LET s == dibs[ret'.src]
                  c == dibs'[ret'.res]
              IN  /\ c.external_bits = NULL
                  /\ c.external_pitch = 0
                  /\ FreeImage_GetPitch(c) = ExactPitch(c)
                  /\ c.has_pixels
                  /\ c.data # s.data
                  /\ \A y \in 0..(s.biHeight - 1), x \in 0..(ToNat(FreeImage_GetLine(s)) - 1) :
                         ByteAt(c.bits, y * ToNat(FreeImage_GetPitch(c)) + x)
                             = ByteAt(bufs[s.external_bits], y * s.external_pitch + x)
                  /\ bufs'[s.external_bits] = bufs[s.external_bits]
                  /\ s.external_bits \in live'
                  /\ Objects(Heap', Owned(Now, ret'.src)) = Objects(Heap, Owned(Now, ret'.src))
       /\ (ret'.op = "Unload" /\ ret'.dib \in Handles /\ dibs[ret'.dib].external_bits = NULL) =>
              /\ CallerBuffer \in live'
              /\ CallerBuffer \notin ret'.freed
              /\ bufs'[CallerBuffer] = bufs[CallerBuffer]]_vars

\* a bitmap of two rows of two bytes wrapped at pitch 3 was cloned: the clone
\* holds the rows (9, 8) and (1, 5) at pitch 4
C18_WrappedCloned ==
    /\ ret.op = "Clone"
    /\ ret.res \in Handles
    /\ ret.src \in Handles
    /\ dibs[ret.src].external_bits = CallerBuffer
    /\ dibs[ret.src].external_pitch = 3
    /\ dibs[ret.src].biWidth = 2 /\ dibs[ret.src].biHeight = 2 /\ dibs[ret.src].biBitCount = 8
    /\ dibs[ret.res].external_bits = NULL
    /\ dibs[ret.res].bits = (0 :> 9) @@ (1 :> 8) @@ (4 :> 1) @@ (5 :> 5)
    /\ bufs[CallerBuffer] = CallerBytes

-----------------------------------------------------------------------------
\* a SetMetadata call on a live handle
Removal ==
    /\ ret'.op = "SetMetadata"
    /\ ret'.dib \in Handles

\* the tags of the models other than model are those of before
OtherModelsKept(dib, model) ==
    \A m \in AllModels \ {model} :
        /\ (m \in DOMAIN MetaView(Now, dib)) <=> (m \in DOMAIN MetaView(Now', dib))
        /\ m \in DOMAIN MetaView(Now, dib) => MetaView(Now', dib)[m] = MetaView(Now, dib)[m]

\* C19: on a live handle, SetMetadata with a key and no tag deletes exactly
\* the entry of the key when it is stored and changes nothing when the model
\* or the key is not there; SetMetadata with no key removes the model with
\* all its tags, after which its count is 0 and no key is found in it, and
\* changes nothing when the model is not there; each of these calls returns
\* TRUE and leaves the tags of every other model as they were.
C19_RemovalIsExact ==
    [][/\ (Removal /\ ret'.key # NoKey /\ ret'.tag = NoTag) =>
              LET before == MetaView(Now, ret'.dib)
                  after == MetaView(Now', ret'.dib)
                  model == ret'.model
              IN  /\ ret'.res = TRUE
                  /\ OtherModelsKept(ret'.dib, model)
                  /\ IF model \in DOMAIN before /\ ret'.key \in DOMAIN before[model]
                     THEN /\ model \in DOMAIN after
                          /\ DOMAIN after[model] = DOMAIN before[model] \ {ret'.key}
                          /\ \A k \in DOMAIN after[model] : after[model][k] = before[model][k]
                     ELSE /\ after = before
                          /\ Now' = Now
       /\ (Removal /\ ret'.key = NoKey) =>
              LET before == MetaView(Now, ret'.dib)
                  after == MetaView(Now', ret'.dib)
                  model == ret'.model
              IN  /\ ret'.res = TRUE
                  /\ OtherModelsKept(ret'.dib, model)
                  /\ FreeImage_GetMetadataCount(Heap', model, ret'.dib) = 0
                  /\ KeysFound(Heap', model, ret'.dib) = {}
                  /\ model \notin DOMAIN after
                  /\ model \notin DOMAIN before => Now' = Now]_vars

\* the tag at "a" was removed from a model that stores a tag at "b" as well,
\* beside another model that has a tag
C19_OneOfTwoRemoved ==
    /\ ret.op = "SetMetadata"
    /\ ret.dib \in Handles
    /\ ret.key = "a"
    /\ ret.tag = NoTag
    /\ ret.freed # {}
    /\ ret.model \in DOMAIN MetaView(Now, ret.dib)
    /\ DOMAIN MetaView(Now, ret.dib)[ret.model] = {"b"}
    /\ \E m \in DOMAIN MetaView(Now, ret.dib) : m # ret.model /\ DOMAIN MetaView(Now, ret.dib)[m] # {}

-----------------------------------------------------------------------------
\* a SetTransparentIndex call on a live handle
IndexSet ==
    /\ ret'.op = "SetTransparentIndex"
    /\ ret'.dib \in Handles

\* C20: SetTransparentIndex on a handle with ColorsUsed > 0 and an index in
\* [0, ColorsUsed) leaves the first ColorsUsed entries of the transparency
\* table 0x00 at the index and 0xFF elsewhere, the count at ColorsUsed and the
\* flag TRUE, and GetTransparentIndex returns the index; with an index outside
\* the range all ColorsUsed entries are 0xFF and GetTransparentIndex returns
\* -1; on a handle without a palette it changes nothing and
\* GetTransparentIndex returns -1.  The count stays within [0, 256] whatever
\* SetTransparencyTable and SetTransparentIndex calls are made.
C20_TransparentIndex ==
    [][/\ IndexSet =>
              LET used == dibs[ret'.dib].biClrUsed
                  index == ret'.res
                  after == dibs'[ret'.dib]
              IN  /\ (used > 0 /\ index >= 0 /\ index < used) =>
                        /\ \A i \in 0..(used - 1) :
                               after.transparent_table[i] = IF i = index THEN 0 ELSE 255
                        /\ after.transparency_count = used
                        /\ after.transparent = TRUE
                        /\ FreeImage_GetTransparentIndex(Heap', ret'.dib) = index
                  /\ (used > 0 /\ ~(index >= 0 /\ index < used)) =>
                        /\ \A i \in 0..(used - 1) : after.transparent_table[i] = 255
                        /\ FreeImage_GetTransparentIndex(Heap', ret'.dib) = 0 - 1
                  /\ used = 0 =>
                        /\ Now' = Now
                        /\ FreeImage_GetTransparentIndex(Heap', ret'.dib) = 0 - 1
       /\ (ret'.op = "GetTransparentIndex" /\ ret'.dib \in Handles
             /\ dibs[ret'.dib].biClrUsed = 0) => ret'.res = 0 - 1
       /\ \A h \in DOMAIN dibs' : dibs'[h].transparency_count \in 0..256]_vars

\* entry 15 of a 4-bit bitmap was made the transparent index: the table has
\* 0x00 there and 0xFF at entry 0, and the table the call allocated is freed
C20_LastEntryTransparent ==
    /\ ret.op = "SetTransparentIndex"
    /\ ret.dib \in Handles
    /\ ret.res = 15
    /\ dibs[ret.dib].biClrUsed = 16
    /\ dibs[ret.dib].transparency_count = 16
    /\ dibs[ret.dib].transparent
    /\ dibs[ret.dib].transparent_table[0] = 255
    /\ dibs[ret.dib].transparent_table[15] = 0
    /\ FreeImage_GetTransparentIndex(Heap, ret.dib) = 15
    /\ ret.freed # {}

-----------------------------------------------------------------------------
\* a CreateICCProfile or DestroyICCProfile call on a live handle
ProfileCall ==
    /\ ret'.op \in {"CreateICCProfile", "DestroyICCProfile"}
    /\ ret'.dib \in Handles

\* the tags of the handle, the one at the profile key of the EXIF-main model left out
TagsBesideProfile(st, dib) ==
    LET mv == MetaView(st, dib)
    IN  [m \in DOMAIN mv |->
            [k \in DOMAIN mv[m] \ (IF m = FIMD_EXIF_MAIN THEN {ICCKey} ELSE {}) |-> mv[m][k]]]

\* C21: CreateICCProfile and DestroyICCProfile on a live handle leave the
\* flags of the profile as they were; afterwards the data of the profile is
\* present exactly when its size is not 0; after CreateICCProfile with n > 0
\* bytes the profile holds a copy of its own of these n bytes, and the bytes
\* held before were released once; both calls delete the tag at
\* "InterColorProfile" of the EXIF-main model and leave every other tag and
\* every other model as it was.
C21_ProfileCallsKeepFlagsAndTags ==
    [][ProfileCall =>
          LET before == dibs[ret'.dib].iccProfile
              after == dibs'[ret'.dib].iccProfile
          IN  /\ after.flags = before.flags
              /\ (after.data # NULL) <=> (after.size # 0)
              /\ ~dfree' /\ ~uaf' /\ ~crashed'
              /\ before.data # NULL =>
                     /\ before.data \in ret'.freed
                     /\ (before.data \notin DOMAIN bufs' \/ before.data = after.data)
              /\ (ret'.op = "CreateICCProfile" /\ ret'.res > 0) =>
                     /\ after.size = ret'.res
                     /\ after.data \in live'
                     /\ after.data # CallerBuffer
                     /\ bufs'[after.data] = SubSeq(ret'.tag, 1, ret'.res)
                     /\ \A h \in DOMAIN dibs' \ {ret'.dib} : dibs'[h].iccProfile.data # after.data
              /\ (ret'.op = "DestroyICCProfile" \/ ret'.res = 0) =>
                     after.data = NULL /\ after.size = 0
              /\ ICCKey \notin KeysFound(Heap', FIMD_EXIF_MAIN, ret'.dib)
              /\ TagsBesideProfile(Now', ret'.dib) = TagsBesideProfile(Now, ret'.dib)]_vars

\* a profile of two bytes replaced one of one byte on a handle whose flags
\* are 3 and which had a tag at the profile key in each of two models and a
\* tag at another key
C21_ProfileReplaced ==
    /\ ret.op = "CreateICCProfile"
    /\ ret.dib \in Handles
    /\ ret.res = 2
    /\ ret.freed # {}
    /\ Cardinality(ret.freed) = 2
    /\ dibs[ret.dib].iccProfile.flags = 3
    /\ dibs[ret.dib].iccProfile.size = 2
    /\ bufs[dibs[ret.dib].iccProfile.data] = <<1, 2>>
    /\ KeysFound(Heap, FIMD_EXIF_MAIN, ret.dib) = {"a"}
    /\ KeysFound(Heap, FIMD_IPTC, ret.dib) = {ICCKey}

-----------------------------------------------------------------------------
\* a SetThumbnail call on a live handle with a live source
ThumbnailCall ==
    /\ ret'.op = "SetThumbnail"
    /\ ret'.dib \in Handles
    /\ ret'.src \in Handles

\* C22: SetThumbnail(handle, source) with a live source reads no handle that
\* the call itself has unloaded, also when source is the handle itself and the
\* handle has a thumbnail and when source is the thumbnail of the thumbnail of
\* the handle; and after the call the thumbnail field of the handle is null or
\* a live handle.
C22_SetThumbnailReadsNoUnloadedHandle ==
    [][ThumbnailCall =>
          /\ ~uaf'
          /\ dibs'[ret'.dib].thumbnail \in Handles' \cup {NULL}]_vars

\* SetThumbnail was given the handle itself as source while the handle had a
\* thumbnail: it unloaded that thumbnail and the clone of the handle then read it
C22_SelfSourceReadFreedThumbnail ==
    /\ ret.op = "SetThumbnail"
    /\ ret.src = ret.dib
    /\ ret.dib \in DOMAIN dibs
    /\ dibs[ret.dib].has_pixels
    /\ ret.freed # {}
    /\ uaf


-----------------------------------------------------------------------------
\* a CloneMetadata call that copies a live handle into itself
SelfCopyCall ==
    /\ ret'.op = "CloneMetadata"
    /\ ret'.dib \in Handles
    /\ ret'.src = ret'.dib

\* C23: CloneMetadata(dst, src) with dst and src the same live handle reads no
\* tag map and no tag that the call itself has destroyed, and the handle has
\* the same tags in every model after the call as before it.
C23_SelfCopyReadsNothingDestroyed ==
    [][SelfCopyCall =>
          /\ ~uaf'
          /\ ~crashed'
          /\ MetaView(Now', ret'.dib) = MetaView(Now, ret'.dib)]_vars

\* the metadata of a handle with a tag in the EXIF-main model was copied into
\* the handle itself: the call destroyed the tag map of the model and then
\* read it to fill the new one
C23_SelfCopyReadDestroyedTagMap ==
    /\ ret.op = "CloneMetadata"
    /\ ret.src = ret.dib
    /\ ret.dib \in DOMAIN dibs
    /\ ret.freed # {}
    /\ uaf


-----------------------------------------------------------------------------
\* the size of the block of a handle as the size calculator gives it
BlockSize(sb, d, header_only) ==
    FreeImage_GetInternalImageSize(sb, header_only, Num(d.biWidth), Num(d.biHeight),
                                   d.biBitCount, FreeImage_HasRGBMasks(d))

\* the first byte after the pixel region of a handle
BitsEnd(hp, sb, dib) ==
    BAdd(Num(FreeImage_GetBits(hp, sb, dib).offset),
         BMul(PitchOf(hp, dib), Num(FreeImage_GetHeight(hp, dib))))

\* the info header, the palette and the masks of a handle end at or before the offset
HeadersBelow(hp, sb, dib, offset) ==
    /\ FreeImage_GetInfoHeader(hp, sb, dib).offset + SizeofInfoHeader <= offset
    /\ FreeImage_GetPalette(hp, sb, dib) # NullPointer
         => FreeImage_GetPalette(hp, sb, dib).offset
              + SizeofRGBA8 * FreeImage_GetColorsUsed(hp, dib) <= offset
    /\ FreeImage_GetRGBMasks(hp, sb, dib) # NullPointer
         => FreeImage_GetRGBMasks(hp, sb, dib).offset + SizeofMasks <= offset

\* the layout of a handle whose block holds its pixels
OwnedLayout(hp, sb, dib) ==
    /\ FreeImage_GetBits(hp, sb, dib).block = hp.dibs[dib].data
    /\ Num(FreeImage_GetBits(hp, sb, dib).offset) = BlockSize(sb, hp.dibs[dib], TRUE)
    /\ HeadersBelow(hp, sb, dib, FreeImage_GetBits(hp, sb, dib).offset)
    /\ hp.dibs[dib].dib_size = BlockSize(sb, hp.dibs[dib], FALSE)
    /\ ~BLt(hp.dibs[dib].dib_size, BitsEnd(hp, sb, dib))

Layout(hp, sb, dib) ==
    /\ ~hp.dibs[dib].has_pixels => FreeImage_GetBits(hp, sb, dib) = NullPointer
    /\ (hp.dibs[dib].has_pixels /\ hp.dibs[dib].external_bits = NULL) => OwnedLayout(hp, sb, dib)

\* C24: for every handle that holds its pixels in its block, GetBits points
\* into the block at the offset the size calculator gives for a header-only
\* block of the depth and masks of the handle; the info header, the palette
\* and the masks end at or before that offset; and the pixel region of pitch
\* times height bytes ends inside the block, whose size is the one the size
\* calculator gives for a block with pixels.  For a handle without pixels
\* GetBits is null.  Clone copies no more bytes than the block of its source
\* and the block of the new handle hold.
C24_PixelsInsideBlock ==
    [][/\ \A h \in Handles' : Layout(Heap', sizeBits, h)
       /\ (ret'.op = "Clone" /\ ret'.res # NULL)
            => /\ ~BLt(dibs[ret'.src].dib_size, CloneCopySize(sizeBits, dibs[ret'.src]))
               /\ ~BLt(dibs'[ret'.res].dib_size, CloneCopySize(sizeBits, dibs[ret'.src]))
               /\ CloneCopySize(sizeBits, dibs[ret'.src]) # Num(0)]_vars

\* a bitmap of 16 bits with masks, 5 pixels wide, that holds its pixels in its
\* block was cloned, beside the bitmap it was cloned from
C24_MaskedBitmapCloned ==
    /\ ret.op = "Clone"
    /\ ret.res \in Handles
    /\ ret.src \in Handles
    /\ dibs[ret.res].has_pixels
    /\ FreeImage_HasRGBMasks(dibs[ret.res])
    /\ dibs[ret.res].biWidth = 5
    /\ FreeImage_GetBits(Heap, sizeBits, ret.res).block = dibs[ret.res].data

=============================================================================
